---- MODULE Spec2Model ----
(***************************************************************************)
(* Model of the perpetual-futures trading engine:                          *)
(*   - the Performance & Equity Ledger   (src/state/store.js)              *)
(*   - the Supervisor                    (src/core/controller.js)          *)
(*   - the Grid and Volatility Traders   (src/core/trader.js,              *)
(*                                        src/core/volatilityTrader.js)    *)
(*   - the Exchange Adapter              (src/api/binanceApi.js)           *)
(* Each component has its own specifications (SpecLedger, SpecAccount;     *)
(* SpecSup, SpecSupSeq; SpecTrader, SpecTraderLive; SpecStream, SpecSim,   *)
(* SpecIds); a specification leaves the variables of the other components  *)
(* unchanged.                                                              *)
(***************************************************************************)
EXTENDS Integers, Sequences, FiniteSets, Bags, TLC

(***************************************************************************)
(* Bounds of the model.                                                    *)
(***************************************************************************)
\* number of recordTrade calls explored
MaxTrades == 3
\* number of setEquity calls explored
MaxSamples == 3
\* largest magnitude of a recorded pnl
MaxPnl == 1
\* largest fee of a recorded trade
MaxFee == 1
\* largest equity value passed to setEquity
MaxEquity == 3
\* config.startingBalanceUSDT
StartingBalance == 2

(***************************************************************************)
(* JavaScript values that may be numbers or NaN/undefined.                 *)
(***************************************************************************)
Num(n) == [type |-> "number", v |-> n]
NaNVal == [type |-> "NaN", v |-> 0]
Undefined == [type |-> "undefined", v |-> 0]

\* Number(x) is NaN for NaN and undefined
IsNaN(x) == x.type # "number"

\* Number(x) || 0 : NaN and undefined become 0
NumberOrZero(x) == IF IsNaN(x) THEN 0 ELSE x.v

\* typeof x === "number" (true of NaN too)
TypeofNumber(x) == x.type \in {"number", "NaN"}

VARIABLES
  \* ---- Ledger (store.js: state) ----
  balance,        \* state.balance
  equity,         \* state.equity  (a JS value: may be NaN)
  peakEquity,     \* state.peakEquity
  pnlToday,       \* state.pnlToday
  performance,    \* state.performance, maxDrawdown kept as a fraction num/den (x100 = percent)
  equityHistory,  \* state.equityHistory (equity samples, oldest first)
  tradeLog,       \* history: the <<gross, fee>> pairs recordTrade has recorded
  equityLog,      \* history: the numeric values setEquity has been given
  \* ---- configuration and clock ----
  mode,               \* config.mode: "test" or "live"
  enableTradingWindow,\* config.enableTradingWindow
  maxTraders,         \* config.maxTraders
  now,                \* Date.now(), in minutes
  \* ---- Supervisor (controller.js: Controller) ----
  traders,            \* this.traders: the symbols that have a Trader registered
  leverageSet,        \* this.leverageSet
  failedSymbols,      \* this.failedSymbols: symbol -> {count, until}; count 0 = no entry
  consecutiveLosses,  \* this.consecutiveLosses
  lossCooldownUntil,  \* this.lossCooldownUntil
  ticks,              \* the _scanAndLaunch invocations: where each is suspended
  running,            \* per symbol, the started Traders that have not terminated yet
  streamSymbols,      \* the symbol set last handed to api.updateSymbols
  startFailures       \* history: per symbol, how many times a Trader start has failed

ledgerVars == <<balance, equity, peakEquity, pnlToday, performance, equityHistory,
                tradeLog, equityLog>>

(***************************************************************************)
(* Ledger                                                                  *)
(***************************************************************************)
\* store.js keeps at most this many equity samples
EquityHistoryCap == 500

LedgerInit ==
  /\ balance = StartingBalance
  /\ equity = Num(StartingBalance)
  /\ peakEquity = StartingBalance
  /\ pnlToday = 0
  /\ performance = [totalTrades |-> 0, wins |-> 0, losses |-> 0, grossProfit |-> 0,
                    grossLoss |-> 0, netProfit |-> 0, feesPaid |-> 0,
                    maxDrawdown |-> [num |-> 0, den |-> 1]]
  /\ equityHistory = <<>>
  /\ tradeLog = <<>>
  /\ equityLog = <<>>

Abs(x) == IF x < 0 THEN 0 - x ELSE x

\* a/b > c/d for positive denominators
FracGT(a, b) == a.num * b.den > b.num * a.den
FracGE(a, b) == a.num * b.den >= b.num * a.den

setBalance(b) ==
  /\ balance' = b
  /\ UNCHANGED <<equity, peakEquity, pnlToday, performance, equityHistory, tradeLog, equityLog>>

setEquity_NoPeakGuard(e) ==
  LET peak == IF IsNaN(e) THEN peakEquity ELSE e.v
      drawdown == IF peak = 0 \/ IsNaN(e) THEN [num |-> 0, den |-> 1]
                  ELSE [num |-> peak - e.v, den |-> peak]
      pushed == Append(equityHistory, e)
  IN /\ equity' = e
     /\ peakEquity' = peak
     /\ performance' = [performance EXCEPT !.maxDrawdown = drawdown]
     /\ equityHistory' = IF Len(pushed) > EquityHistoryCap THEN Tail(pushed) ELSE pushed
     /\ equityLog' = IF IsNaN(e) THEN equityLog ELSE Append(equityLog, e.v)
     /\ UNCHANGED <<balance, pnlToday, tradeLog>>

setEquity(e) ==
  LET \* value > state.peakEquity is false for NaN
      peak == IF ~IsNaN(e) /\ e.v > peakEquity THEN e.v ELSE peakEquity
      \* NaN drawdown never compares greater
      drawdown == IF peak = 0 \/ IsNaN(e) THEN [num |-> 0, den |-> 1]
                  ELSE [num |-> peak - e.v, den |-> peak]
      pushed == Append(equityHistory, e)
  IN /\ equity' = e
     /\ peakEquity' = peak
     /\ performance' = [performance EXCEPT !.maxDrawdown =
                          IF ~IsNaN(e) /\ FracGT(drawdown, @) THEN drawdown ELSE @]
     /\ equityHistory' = IF Len(pushed) > EquityHistoryCap THEN Tail(pushed) ELSE pushed
     /\ equityLog' = IF IsNaN(e) THEN equityLog ELSE Append(equityLog, e.v)
     /\ UNCHANGED <<balance, pnlToday, tradeLog>>

recordTrade_SignedLoss(pnl, fees) ==
  LET gross == NumberOrZero(pnl)
      fee == NumberOrZero(fees)
      p1 == [performance EXCEPT !.totalTrades = @ + 1]
      p2 == IF gross >= 0
            THEN [p1 EXCEPT !.wins = @ + 1, !.grossProfit = @ + gross]
            ELSE [p1 EXCEPT !.losses = @ + 1, !.grossLoss = @ + gross]
      p3 == [p2 EXCEPT !.feesPaid = @ + fee]
  IN /\ performance' = [p3 EXCEPT !.netProfit = p3.grossProfit - p3.grossLoss - p3.feesPaid]
     /\ pnlToday' = pnlToday + gross - fee
     /\ tradeLog' = Append(tradeLog, <<gross, fee>>)
     /\ UNCHANGED <<balance, equity, peakEquity, equityHistory, equityLog>>

recordTrade(pnl, fees) ==
  LET gross == NumberOrZero(pnl)
      fee == NumberOrZero(fees)
      p1 == [performance EXCEPT !.totalTrades = @ + 1]
      p2 == IF gross >= 0
            THEN [p1 EXCEPT !.wins = @ + 1, !.grossProfit = @ + gross]
            ELSE [p1 EXCEPT !.losses = @ + 1, !.grossLoss = @ + Abs(gross)]
      p3 == [p2 EXCEPT !.feesPaid = @ + fee]
  IN /\ performance' = [p3 EXCEPT !.netProfit = p3.grossProfit - p3.grossLoss - p3.feesPaid]
     /\ pnlToday' = pnlToday + gross - fee
     /\ tradeLog' = Append(tradeLog, <<gross, fee>>)
     /\ UNCHANGED <<balance, equity, peakEquity, equityHistory, equityLog>>

PnlInputs == {Num(n) : n \in (0 - MaxPnl)..MaxPnl} \cup {NaNVal}
FeeInputs == {Num(n) : n \in 0..MaxFee} \cup {NaNVal}
EquityInputs == {Num(n) : n \in (0 - 1)..MaxEquity} \cup {NaNVal}

(***************************************************************************)
(* Supervisor                                                              *)
(***************************************************************************)
\* the symbols the scanner may propose
Symbols == {"AAA", "BBB"}
\* config.maxTraders when scan ticks may overlap
MaxTraders == 1
\* concurrent _scanAndLaunch invocations explored (setInterval does not wait for a tick)
MaxTicks == 2
\* the clock stops here (minutes)
MaxNow == 15
\* consecutive losses explored
MaxLosses == 4
\* Trader start failures explored
MaxStartFailures == 2

supVars == <<traders, leverageSet, failedSymbols, consecutiveLosses, lossCooldownUntil,
             ticks, running, streamSymbols, startFailures>>
envVars == <<mode, enableTradingWindow, maxTraders, now>>

NoFailure == [count |-> 0, until |-> 0]
IdleTick == [pc |-> "idle", cands |-> <<>>, idx |-> 0]

SupInit ==
  /\ traders = {}
  /\ leverageSet = {}
  /\ failedSymbols = [s \in Symbols |-> NoFailure]
  /\ consecutiveLosses = 0
  /\ lossCooldownUntil = 0
  /\ ticks = [t \in 1..MaxTicks |-> IdleTick]
  /\ running = [s \in Symbols |-> 0]
  /\ streamSymbols = {}
  /\ startFailures = [s \in Symbols |-> 0]

\* what scanner.scan() may return: distinct symbols, best first,
\* at most max(1, maxTraders) of them
RECURSIVE Distinct(_)
Distinct(q) ==
  IF Len(q) <= 1 THEN TRUE
  ELSE (\A i \in 2..Len(q) : q[i] # q[1]) /\ Distinct(Tail(q))
ScanLimit == IF maxTraders > 1 THEN maxTraders ELSE 1
ScanResults ==
  {q \in UNION {[1..n -> Symbols] : n \in 0..ScanLimit} : Distinct(q)}

\* the window test with 9 o'clock included
_isWithinTradingHours_Inclusive(hour) == hour >= 3 /\ hour <= 9

\* hour >= 3 && hour < 9
_isWithinTradingHours(hour) == hour >= 3 /\ hour < 9

\* failure && Date.now() < failure.until
CoolingDown(fs, symbol) == fs[symbol].count > 0 /\ now < fs[symbol].until

\* the candidates the loop passes over with "continue" before it acts on one
RECURSIVE NextCandidate(_, _, _, _)
NextCandidate(cands, i, tr, fs) ==
  IF i > Len(cands) THEN i
  ELSE IF cands[i] \in tr \/ CoolingDown(fs, cands[i]) THEN NextCandidate(cands, i + 1, tr, fs)
  ELSE i

\* count >= 3 ? 60 : count >= 2 ? 15 : 5
StartCooldownMinutes(count) == IF count >= 3 THEN 60 ELSE IF count >= 2 THEN 15 ELSE 5

\* consecutiveLosses >= 4 ? 60 : consecutiveLosses >= 3 ? 30 : 15
LossCooldownMinutes(losses) == IF losses >= 4 THEN 60 ELSE IF losses >= 3 THEN 30 ELSE 15

\* Controller._destroy(symbol, pnl), up to its await: the new values of
\* traders, consecutiveLosses, lossCooldownUntil and the stream subscription
_destroy_FlatCooldown(symbol, pnl, tr, cl, lcu, ss) ==
  IF symbol \notin tr THEN [traders |-> tr, cl |-> cl, lcu |-> lcu, ss |-> ss, did |-> FALSE]
  ELSE LET tr2 == tr \ {symbol}
           loss == TypeofNumber(pnl) /\ ~IsNaN(pnl) /\ pnl.v < 0
           cl2 == IF ~TypeofNumber(pnl) THEN cl ELSE IF loss THEN cl + 1 ELSE 0
           lcu2 == IF ~TypeofNumber(pnl) THEN lcu
                   ELSE IF loss THEN (IF cl2 >= 2 THEN now + 15 ELSE lcu)
                   ELSE 0
       IN [traders |-> tr2, cl |-> cl2, lcu |-> lcu2, ss |-> tr2, did |-> TRUE]

_destroy(symbol, pnl, tr, cl, lcu, ss) ==
  IF symbol \notin tr THEN [traders |-> tr, cl |-> cl, lcu |-> lcu, ss |-> ss, did |-> FALSE]
  ELSE LET tr2 == tr \ {symbol}
           \* NaN < 0 is false
           loss == TypeofNumber(pnl) /\ ~IsNaN(pnl) /\ pnl.v < 0
           cl2 == IF ~TypeofNumber(pnl) THEN cl ELSE IF loss THEN cl + 1 ELSE 0
           lcu2 == IF ~TypeofNumber(pnl) THEN lcu
                   ELSE IF loss THEN (IF cl2 >= 2 THEN now + LossCooldownMinutes(cl2) ELSE lcu)
                   ELSE 0
       IN [traders |-> tr2, cl |-> cl2, lcu |-> lcu2, ss |-> tr2, did |-> TRUE]

\* the for-loop of _scanAndLaunch from candidate i up to its next await:
\* the new values of traders, failedSymbols, the stream subscription and the tick
LaunchLoop(tick, i, tr, fs, ss) ==
  LET j == NextCandidate(tick.cands, i, tr, fs)
      toRefresh == [traders |-> tr, fs |-> fs, ss |-> tr,
                    tick |-> [tick EXCEPT !.pc = "refresh", !.idx = 0]]
  IN IF Cardinality(tr) >= maxTraders \/ j > Len(tick.cands) THEN toRefresh
     ELSE LET symbol == tick.cands[j]
              fs2 == [fs EXCEPT ![symbol] = NoFailure]
          IN IF mode = "live" /\ symbol \notin leverageSet
             THEN [traders |-> tr, fs |-> fs2, ss |-> ss,
                   tick |-> [tick EXCEPT !.pc = "setLeverage", !.idx = j]]
             ELSE [traders |-> tr \cup {symbol}, fs |-> fs2, ss |-> ss,
                   tick |-> [tick EXCEPT !.pc = "start", !.idx = j]]

\* a _scanAndLaunch invocation begins (the first call or a setInterval tick)
ScanBegin(t) ==
  /\ ticks[t].pc = "idle"
  /\ ticks' = [ticks EXCEPT ![t] =
       IF Cardinality(traders) >= maxTraders THEN IdleTick
       ELSE IF lossCooldownUntil > now THEN IdleTick
       ELSE [IdleTick EXCEPT !.pc = "scan"]]
  /\ UNCHANGED <<traders, leverageSet, failedSymbols, consecutiveLosses, lossCooldownUntil,
                 running, streamSymbols, startFailures>>

\* scanner.scan() returns candidates; the trading-window gate; the loop begins
ScanReturn(t, cands, hour) ==
  /\ ticks[t].pc = "scan"
  /\ IF enableTradingWindow /\ ~_isWithinTradingHours(hour)
     THEN /\ ticks' = [ticks EXCEPT ![t] = IdleTick]
          /\ UNCHANGED <<traders, failedSymbols, streamSymbols>>
     ELSE LET r == LaunchLoop([ticks[t] EXCEPT !.cands = cands], 1, traders, failedSymbols,
                              streamSymbols)
          IN /\ ticks' = [ticks EXCEPT ![t] = r.tick]
             /\ traders' = r.traders
             /\ failedSymbols' = r.fs
             /\ streamSymbols' = r.ss
  /\ UNCHANGED <<leverageSet, consecutiveLosses, lossCooldownUntil, running, startFailures>>

\* api.setLeverage returns or throws (live mode)
LeverageReturn(t, ok) ==
  /\ ticks[t].pc = "setLeverage"
  /\ LET symbol == ticks[t].cands[ticks[t].idx]
     IN IF ok
        THEN /\ leverageSet' = leverageSet \cup {symbol}
             /\ traders' = traders \cup {symbol}
             /\ ticks' = [ticks EXCEPT ![t].pc = "start"]
             /\ UNCHANGED <<failedSymbols, streamSymbols>>
        ELSE LET r == LaunchLoop(ticks[t], ticks[t].idx + 1, traders, failedSymbols,
                                 streamSymbols)
             IN /\ ticks' = [ticks EXCEPT ![t] = r.tick]
                /\ traders' = r.traders
                /\ failedSymbols' = r.fs
                /\ streamSymbols' = r.ss
                /\ UNCHANGED leverageSet
  /\ UNCHANGED <<consecutiveLosses, lossCooldownUntil, running, startFailures>>

\* trader.start() resolves: the Trader runs, the loop goes on
StartReturnOk(t) ==
  /\ ticks[t].pc = "start"
  /\ LET symbol == ticks[t].cands[ticks[t].idx]
         r == LaunchLoop(ticks[t], ticks[t].idx + 1, traders, failedSymbols, streamSymbols)
     IN /\ running' = [running EXCEPT ![symbol] = @ + 1]
        /\ ticks' = [ticks EXCEPT ![t] = r.tick]
        /\ traders' = r.traders
        /\ failedSymbols' = r.fs
        /\ streamSymbols' = r.ss
  /\ UNCHANGED <<leverageSet, consecutiveLosses, lossCooldownUntil, startFailures>>

RECURSIVE SumOver(_, _)
SumOver(f, S) == IF S = {} THEN 0 ELSE LET x == CHOOSE y \in S : TRUE IN f[x] + SumOver(f, S \ {x})
TotalStartFailures == SumOver(startFailures, Symbols)

\* trader.start() rejects: release the slot, back off, destroy the Trader
StartReturnFail(t) ==
  /\ ticks[t].pc = "start"
  /\ LET symbol == ticks[t].cands[ticks[t].idx]
     IN /\ TotalStartFailures < MaxStartFailures
        /\ traders' = traders \ {symbol}
        /\ LET count == failedSymbols[symbol].count + 1
           IN failedSymbols' = [failedSymbols EXCEPT ![symbol] =
                [count |-> count, until |-> now + StartCooldownMinutes(count)]]
        /\ startFailures' = [startFailures EXCEPT ![symbol] = @ + 1]
        /\ ticks' = [ticks EXCEPT ![t].pc = "destroyFailed"]
  /\ UNCHANGED <<leverageSet, consecutiveLosses, lossCooldownUntil, running, streamSymbols>>

\* trader.destroy("start-failed") settles; when it ran to its end it has called
\* onDestroy(symbol, realizedPnl = 0); the loop goes on
DestroyFailedReturn(t, completed) ==
  /\ ticks[t].pc = "destroyFailed"
  /\ LET symbol == ticks[t].cands[ticks[t].idx]
         d == IF completed
              THEN _destroy(symbol, Num(0), traders, consecutiveLosses, lossCooldownUntil,
                            streamSymbols)
              ELSE [traders |-> traders, cl |-> consecutiveLosses, lcu |-> lossCooldownUntil,
                    ss |-> streamSymbols, did |-> FALSE]
         r == LaunchLoop(ticks[t], ticks[t].idx + 1, d.traders, failedSymbols, d.ss)
     IN /\ consecutiveLosses' = d.cl
        /\ lossCooldownUntil' = d.lcu
        /\ ticks' = [ticks EXCEPT ![t] = r.tick]
        /\ traders' = r.traders
        /\ failedSymbols' = r.fs
        /\ streamSymbols' = r.ss
  /\ UNCHANGED <<leverageSet, running, startFailures>>

\* _refreshMarketStreams at the end of _scanAndLaunch returns
RefreshReturn(t) ==
  /\ ticks[t].pc = "refresh"
  /\ ticks' = [ticks EXCEPT ![t] = IdleTick]
  /\ UNCHANGED <<traders, leverageSet, failedSymbols, consecutiveLosses, lossCooldownUntil,
                 running, streamSymbols, startFailures>>

\* a running Trader terminates and calls onDestroy(symbol, realizedPnl)
TraderTerminates(symbol, pnl) ==
  /\ running[symbol] > 0
  /\ (TypeofNumber(pnl) /\ ~IsNaN(pnl) /\ pnl.v < 0) => consecutiveLosses < MaxLosses
  /\ running' = [running EXCEPT ![symbol] = @ - 1]
  /\ LET d == _destroy(symbol, pnl, traders, consecutiveLosses, lossCooldownUntil,
                       streamSymbols)
     IN /\ traders' = d.traders
        /\ consecutiveLosses' = d.cl
        /\ lossCooldownUntil' = d.lcu
        /\ streamSymbols' = d.ss
  /\ UNCHANGED <<leverageSet, failedSymbols, ticks, startFailures>>

\* time passes
ClockStep == 5
ClockAdvance ==
  /\ now + ClockStep <= MaxNow
  /\ now' = now + ClockStep

\* realised P&L values a Grid Trader may report
TerminalPnl == {Num(0 - 1), Num(0), Num(1)}
\* UTC hours that exercise both sides of the trading window
Hours == {2, 3, 8, 9}

(***************************************************************************)
(* Traders: one Trader of either strategy, its orders on the exchange and  *)
(* the asynchronous calls it has in flight.  A call suspended on an await  *)
(* is a task; the code between two awaits runs as one step.                *)
(***************************************************************************)
\* mark price when the Trader starts (api.getMarkPrice), in 1/100 of a price unit
BasePrice == 10000
\* config.levelSpacingPercent, takeProfitPercent, stopLossPercent (Grid defaults)
GridSpacingPercent == 1
GridTakeProfitPercent == 1
GridStopLossPercent == 1
\* config.volatilityTakeProfitPercent, volatilityStopLossPercent (defaults)
VolTakeProfitPercent == 3
VolStopLossPercent == 6
\* destroy calls made from outside the Trader (Supervisor, shutdown)
MaxDestroyCalls == 2

Dirs == {"LONG", "SHORT"}
DirOrder == <<"LONG", "SHORT">>
NullId == <<>>
\* an order id: the position side it belongs to and what it was placed as
OrderId(d, kind) == <<d, kind>>

\* utils/math.js
pctChange(base, pct) == base + ((base * pct) \div 100)

Sign(d) == IF d = "LONG" THEN 1 ELSE 0 - 1

GridEntryPrice(d) == pctChange(BasePrice, (0 - Sign(d)) * GridSpacingPercent)

\* takeProfitPrice / stopLossPrice given to a new position
TakeProfitPrice(strat, d) ==
  IF strat = "GRID" THEN pctChange(GridEntryPrice(d), Sign(d) * GridTakeProfitPercent)
  ELSE pctChange(BasePrice, Sign(d) * VolTakeProfitPercent)

StopLossPrice(strat, d) ==
  IF strat = "GRID" THEN pctChange(GridEntryPrice(d), (0 - Sign(d)) * GridStopLossPercent)
  ELSE pctChange(BasePrice, (0 - Sign(d)) * VolStopLossPercent)

\* the prices the market data feed may report
PriceLevels(strat) ==
  {BasePrice} \cup {TakeProfitPrice(strat, d) : d \in Dirs}
              \cup {StopLossPrice(strat, d) : d \in Dirs}
              \cup (IF strat = "GRID" THEN {GridEntryPrice(d) : d \in Dirs} ELSE {})

VARIABLES
  \* ---- Trader (trader.js: Trader, volatilityTrader.js: VolatilityTrader) ----
  strategy,          \* "GRID" (Trader) or "VOLATILITY" (VolatilityTrader)
  phase,             \* "new" after construction, "starting" while start() awaits,
                     \* "started" / "failed" after start()
  active,            \* this.active
  handlersOn,        \* the four event handlers are registered with the api
  basePrice,         \* this.basePrice (0 = null)
  lastPrice,         \* this.lastPrice (0 = null)
  positions,         \* this.positions, by direction; open = the entry is in the Map
  posOrder,          \* insertion order of this.positions
  pendingEntries,    \* this.pendingEntriesById (insertion order)
  pendingExits,      \* this.pendingExitsById (insertion order)
  tpHitSide,         \* this.tpHitSide ("null" = none)
  tradeHistory,      \* this.tradeHistory
  openOrders,        \* the Trader's orders resting on the exchange / in testOrders
  tasks,             \* the suspended asynchronous calls
  offCalls,          \* history: how many times the handlers were deregistered
  removeTraderCalls, \* history: store.removeTrader calls
  onDestroyCalls,    \* history: onDestroy callback calls
  destroyResult,     \* history: outcome of each outside destroy call
  unhandled,         \* history: a promise nobody awaits was rejected
  firstTpFinalized,  \* history: a take-profit _finalizeClose of the Volatility Trader returned
  recordTradeCalls,  \* history: store.recordTrade calls
  replaceCalls,      \* history: _replaceExitsAfterTp calls
  destroyReason      \* history: the reason of the destroy call that passed the guard ("" = none)

traderVars == <<strategy, phase, active, handlersOn, basePrice, lastPrice, positions, posOrder,
                pendingEntries, pendingExits, tpHitSide, tradeHistory, openOrders, tasks,
                offCalls, removeTraderCalls, onDestroyCalls, destroyResult, unhandled,
                firstTpFinalized, recordTradeCalls, replaceCalls, destroyReason>>

NoPosition == [open |-> FALSE, isClosing |-> FALSE, takeProfitPrice |-> 0, stopLossPrice |-> 0,
               tpOrderId |-> NullId, slOrderId |-> NullId]

\* constructor
TraderInit ==
  /\ phase = "new"
  /\ active = TRUE
  /\ handlersOn = FALSE
  /\ basePrice = 0
  /\ lastPrice = 0
  /\ positions = [d \in Dirs |-> NoPosition]
  /\ posOrder = <<>>
  /\ pendingEntries = <<>>
  /\ pendingExits = <<>>
  /\ tpHitSide = "null"
  /\ tradeHistory = <<>>
  /\ openOrders = <<>>
  /\ tasks = EmptyBag
  /\ offCalls = 0
  /\ removeTraderCalls = 0
  /\ onDestroyCalls = 0
  /\ destroyResult = <<>>
  /\ unhandled = FALSE
  /\ firstTpFinalized = FALSE
  /\ recordTradeCalls = 0
  /\ replaceCalls = 0
  /\ destroyReason = ""

\* the Trader and exchange state as one value, so that the synchronous code
\* between two awaits composes as functions
TS == [phase |-> phase, active |-> active, handlersOn |-> handlersOn, lastPrice |-> lastPrice,
       positions |-> positions, posOrder |-> posOrder, pendingEntries |-> pendingEntries,
       pendingExits |-> pendingExits, tpHitSide |-> tpHitSide, tradeHistory |-> tradeHistory,
       openOrders |-> openOrders, tasks |-> tasks, offCalls |-> offCalls,
       removeTraderCalls |-> removeTraderCalls, onDestroyCalls |-> onDestroyCalls,
       destroyResult |-> destroyResult, unhandled |-> unhandled,
       firstTpFinalized |-> firstTpFinalized, recordTradeCalls |-> recordTradeCalls,
       replaceCalls |-> replaceCalls, destroyReason |-> destroyReason]

Commit(s) ==
  /\ phase' = s.phase
  /\ active' = s.active
  /\ handlersOn' = s.handlersOn
  /\ lastPrice' = s.lastPrice
  /\ positions' = s.positions
  /\ posOrder' = s.posOrder
  /\ pendingEntries' = s.pendingEntries
  /\ pendingExits' = s.pendingExits
  /\ tpHitSide' = s.tpHitSide
  /\ tradeHistory' = s.tradeHistory
  /\ openOrders' = s.openOrders
  /\ tasks' = s.tasks
  /\ offCalls' = s.offCalls
  /\ removeTraderCalls' = s.removeTraderCalls
  /\ onDestroyCalls' = s.onDestroyCalls
  /\ destroyResult' = s.destroyResult
  /\ unhandled' = s.unhandled
  /\ firstTpFinalized' = s.firstTpFinalized
  /\ recordTradeCalls' = s.recordTradeCalls
  /\ replaceCalls' = s.replaceCalls
  /\ destroyReason' = s.destroyReason
  /\ UNCHANGED <<strategy, basePrice>>

\* sequence helpers
SeqRemove(q, x) == SelectSeq(q, LAMBDA y : y # x)
SeqRange(q) == {q[i] : i \in 1..Len(q)}
ExitsWithout(q, id) == SelectSeq(q, LAMBDA e : e.orderId # id)
ExitIds(q) == {q[i].orderId : i \in 1..Len(q)}
\* Map.set: a new key goes to the end, an existing key keeps its place
ExitsSet(q, e) == IF e.orderId \in ExitIds(q)
                  THEN [i \in 1..Len(q) |-> IF q[i].orderId = e.orderId THEN e ELSE q[i]]
                  ELSE Append(q, e)
ExitIdSeq(q) == [i \in 1..Len(q) |-> q[i].orderId]
\* index of the first element of q that is in S, 0 if there is none
FirstIn(q, S) ==
  IF \E i \in 1..Len(q) : q[i] \in S
  THEN CHOOSE i \in 1..Len(q) : q[i] \in S /\ \A j \in 1..(i - 1) : q[j] \notin S
  ELSE 0

\* a suspended call: where it waits (pc), the position and close reason it
\* works on, the loop it has to return to (outer) with the positions still
\* to visit (rest), and the locals of the function it is in
NewTask == [pc |-> "", pos |-> "none", reason |-> "", outer |-> "none", rest |-> <<>>,
            price |-> 0, ext |-> 0, unsafe |-> FALSE, cur |-> NullId, visited |-> {},
            tpFinal |-> FALSE]

Suspend(s, t, pc) == [s EXCEPT !.tasks = @ (+) SetToBag({[t EXCEPT !.pc = pc]})]

\* api.cancelOrder took effect on the exchange
Cancelled(s, id) == [s EXCEPT !.openOrders = SeqRemove(@, id)]
\* an order placement took effect on the exchange
Placed(s, id) == [s EXCEPT !.openOrders = Append(@, id)]

\* an exception leaves the call chain: an outside destroy call rejects to its
\* caller, start() rejects to the Supervisor, anything else is a rejection
\* nobody handles
Throw(s, t) ==
  IF t.ext > 0 THEN [s EXCEPT !.destroyResult[t.ext] = "error"]
  ELSE IF t.outer = "start" THEN [s EXCEPT !.phase = "failed"]
  ELSE [s EXCEPT !.unhandled = TRUE]

\* Volatility start(): _placeInitialPositions goes on with the exit orders of
\* the SHORT leg after those of the LONG leg; after both, the handlers are
\* registered
StartResume(s, t) ==
  IF t.pos = "LONG" THEN Suspend(s, [t EXCEPT !.pos = "SHORT"], "start.placeTp")
  ELSE [s EXCEPT !.handlersOn = TRUE, !.phase = "started"]

RECURSIVE Return(_, _), _maybeForceClose(_, _), _finalizeClose(_, _, _, _),
          FinalizeAfterCancel(_, _), FinalizeRecord(_, _), destroy(_, _), DestroyBody(_, _),
          DestroyCancelEntries(_, _), DestroyCancelExits(_, _), DestroyAfterCancelAll(_, _),
          _closeAllPositions(_, _), DestroyFinish(_, _), _closePosition(_, _, _, _),
          _replaceExitsAfterTp(_, _, _), ReplaceCancelSl(_, _), ReplaceDecide(_, _)

\* the innermost call of a chain returned normally; every caller on the chain
\* awaits it as its last statement, up to the loop the chain was started from
Return(s, t) ==
  LET s1 == IF t.tpFinal THEN [s EXCEPT !.firstTpFinalized = TRUE] ELSE s
      t1 == [t EXCEPT !.tpFinal = FALSE]
  IN CASE t.outer = "mark" -> IF ~s1.active THEN s1 ELSE _maybeForceClose(s1, t1)
       [] t.outer = "destroy" -> _closeAllPositions(s1, t1)
       [] t.outer = "start" -> StartResume(s1, t1)
       [] OTHER -> s1

\* the loop of _maybeForceClose over the snapshot of positions (t.rest), at t.price
_maybeForceClose(s, t) ==
  IF t.rest = <<>> THEN s
  ELSE LET d == Head(t.rest)
           t1 == [t EXCEPT !.rest = Tail(@)]
           pos == s.positions[d]
           hitTp == IF d = "LONG" THEN t.price >= pos.takeProfitPrice
                                  ELSE t.price <= pos.takeProfitPrice
           hitSl == IF d = "LONG" THEN t.price <= pos.stopLossPrice
                                  ELSE t.price >= pos.stopLossPrice
       IN IF pos.isClosing \/ (~hitTp /\ ~hitSl) THEN _maybeForceClose(s, t1)
          ELSE IF strategy = "GRID"
          THEN _finalizeClose(s, t1, d, IF hitTp THEN "take-profit" ELSE "stop-loss")
          ELSE IF hitTp /\ s.tpHitSide = "null"
          THEN _finalizeClose([s EXCEPT !.tpHitSide = d], t1, d, "take-profit")
          ELSE _finalizeClose(s, t1, d, IF hitTp THEN "base-close" ELSE "stop-loss")

\* _finalizeClose without the isClosing test
_finalizeClose_NoGuard(s, t, d, reason) ==
  LET pos == s.positions[d]
      s1 == [s EXCEPT !.positions[d].isClosing = TRUE]
      t1 == [t EXCEPT !.pos = d, !.reason = reason]
  IN IF pos.tpOrderId # NullId THEN Suspend(s1, [t1 EXCEPT !.cur = pos.tpOrderId], "finalize.cancelTp")
     ELSE IF pos.slOrderId # NullId THEN Suspend(s1, [t1 EXCEPT !.cur = pos.slOrderId], "finalize.cancelSl")
     ELSE FinalizeAfterCancel(s1, t1)

\* _finalizeClose(pos, reason, exitPrice, exitOrderId) up to its first await
_finalizeClose(s, t, d, reason) ==
  LET pos == s.positions[d]
      s1 == [s EXCEPT !.positions[d].isClosing = TRUE]
      t1 == [t EXCEPT !.pos = d, !.reason = reason]
  IN IF pos.isClosing THEN Return(s, t)
     ELSE IF pos.tpOrderId # NullId THEN Suspend(s1, [t1 EXCEPT !.cur = pos.tpOrderId], "finalize.cancelTp")
     ELSE IF pos.slOrderId # NullId THEN Suspend(s1, [t1 EXCEPT !.cur = pos.slOrderId], "finalize.cancelSl")
     ELSE FinalizeAfterCancel(s1, t1)

\* live mode fetches the trade summary before the books are updated
FinalizeAfterCancel(s, t) ==
  IF mode = "live" THEN Suspend(s, t, "finalize.summary") ELSE FinalizeRecord(s, t)

\* FinalizeRecord with the Grid Trader destroyed after every close reason
FinalizeRecord_AlwaysDestroy(s, t) ==
  LET d == t.pos
      s1 == [s EXCEPT !.positions[d].open = FALSE,
                      !.posOrder = SeqRemove(@, d),
                      !.tradeHistory = Append(@, [direction |-> d, reason |-> t.reason]),
                      !.recordTradeCalls = @ + 1]
      k == FirstIn(s1.posOrder, {x \in Dirs : ~s1.positions[x].isClosing})
      t1 == [t EXCEPT !.tpFinal = (t.reason = "take-profit")]
  IN IF strategy = "GRID"
     THEN destroy(s1, t)
     ELSE IF t.reason = "take-profit" /\ Len(s1.posOrder) > 0
          THEN IF k # 0 THEN _replaceExitsAfterTp(s1, t1, s1.posOrder[k]) ELSE Return(s1, t1)
          ELSE IF Len(s1.posOrder) = 0 THEN destroy(s1, t1) ELSE Return(s1, t1)

\* FinalizeRecord with the Volatility Trader destroyed after every close that
\* is not followed by the exit rewrite
FinalizeRecord_DestroyEarly(s, t) ==
  LET d == t.pos
      s1 == [s EXCEPT !.positions[d].open = FALSE,
                      !.posOrder = SeqRemove(@, d),
                      !.tradeHistory = Append(@, [direction |-> d, reason |-> t.reason]),
                      !.recordTradeCalls = @ + 1]
      k == FirstIn(s1.posOrder, {x \in Dirs : ~s1.positions[x].isClosing})
      t1 == [t EXCEPT !.tpFinal = (t.reason = "take-profit")]
  IN IF strategy = "GRID"
     THEN IF t.reason \in {"take-profit", "stop-loss"} THEN destroy(s1, t) ELSE Return(s1, t)
     ELSE IF t.reason = "take-profit" /\ Len(s1.posOrder) > 0
          THEN IF k # 0 THEN _replaceExitsAfterTp(s1, t1, s1.posOrder[k]) ELSE Return(s1, t1)
          ELSE destroy(s1, t1)

\* the end of _finalizeClose: positions.delete, tradeHistory.push,
\* store.recordTrade, and what the strategy does next
FinalizeRecord(s, t) ==
  LET d == t.pos
      s1 == [s EXCEPT !.positions[d].open = FALSE,
                      !.posOrder = SeqRemove(@, d),
                      !.tradeHistory = Append(@, [direction |-> d, reason |-> t.reason]),
                      !.recordTradeCalls = @ + 1]
      k == FirstIn(s1.posOrder, {x \in Dirs : ~s1.positions[x].isClosing})
      t1 == [t EXCEPT !.tpFinal = (t.reason = "take-profit")]
  IN IF strategy = "GRID"
     THEN IF t.reason \in {"take-profit", "stop-loss"} THEN destroy(s1, t) ELSE Return(s1, t)
     ELSE IF t.reason = "take-profit" /\ Len(s1.posOrder) > 0
          THEN IF k # 0 THEN _replaceExitsAfterTp(s1, t1, s1.posOrder[k]) ELSE Return(s1, t1)
          ELSE IF Len(s1.posOrder) = 0 THEN destroy(s1, t1) ELSE Return(s1, t1)

\* destroy(reason, {closePositions: false}) called by _finalizeClose
destroy(s, t) ==
  IF ~s.active THEN Return(s, t) ELSE DestroyBody(s, t)

\* destroy(reason) past its guard: active = false and the handlers are
\* deregistered; _finalizeClose passes its own reason, a caller outside the
\* Trader its own ("external")
DestroyBody(s, t) ==
  DestroyCancelEntries([s EXCEPT !.active = FALSE, !.handlersOn = FALSE, !.offCalls = @ + 1,
                                 !.destroyReason = IF t.ext > 0 THEN "external" ELSE t.reason],
                       [t EXCEPT !.visited = {}])

\* for (const order of this.pendingEntriesById.values()) await cancelOrder
DestroyCancelEntries(s, t) ==
  LET k == FirstIn(s.pendingEntries, SeqRange(s.pendingEntries) \ t.visited)
  IN IF k # 0 THEN Suspend(s, [t EXCEPT !.cur = s.pendingEntries[k]], "destroy.cancelEntry")
     ELSE DestroyCancelExits(s, [t EXCEPT !.visited = {}])

\* for (const order of this.pendingExitsById.values()) await cancelOrder
DestroyCancelExits(s, t) ==
  LET k == FirstIn(ExitIdSeq(s.pendingExits), ExitIds(s.pendingExits) \ t.visited)
  IN IF k # 0 THEN Suspend(s, [t EXCEPT !.cur = s.pendingExits[k].orderId], "destroy.cancelExit")
     ELSE Suspend(s, [t EXCEPT !.visited = {}, !.cur = NullId], "destroy.cancelAll")

\* only an outside destroy call closes the positions
DestroyAfterCancelAll(s, t) ==
  IF t.ext > 0 THEN _closeAllPositions(s, [t EXCEPT !.rest = s.posOrder])
  ELSE DestroyFinish(s, t)

_closeAllPositions(s, t) ==
  IF t.rest = <<>> THEN DestroyFinish(s, t)
  ELSE _closePosition(s, [t EXCEPT !.rest = Tail(@)], Head(t.rest), "destroy")

\* store.removeTrader and the onDestroy callback
DestroyFinish(s, t) ==
  LET s1 == [s EXCEPT !.removeTraderCalls = @ + 1, !.onDestroyCalls = @ + 1]
  IN IF t.ext > 0 THEN [s1 EXCEPT !.destroyResult[t.ext] = "ok"]
     ELSE Return(s1, t)

_closePosition(s, t, d, reason) ==
  Suspend(s, [t EXCEPT !.pos = d, !.reason = reason], "close.market")

_replaceExitsAfterTp(s0, t, d) ==
  LET t1 == [t EXCEPT !.pos = d]
      s == [s0 EXCEPT !.replaceCalls = @ + 1]
  IN IF s.positions[d].tpOrderId # NullId
     THEN Suspend(s, [t1 EXCEPT !.cur = s.positions[d].tpOrderId], "replace.cancelTp")
     ELSE ReplaceCancelSl(s, t1)

ReplaceCancelSl(s, t) ==
  IF s.positions[t.pos].slOrderId # NullId
  THEN Suspend(s, [t EXCEPT !.cur = s.positions[t.pos].slOrderId], "replace.cancelSl")
  ELSE ReplaceDecide(s, t)

\* the pastBase test and the placement of the new TP
ReplaceDecide(s, t) ==
  LET currentPrice == IF s.lastPrice # 0 THEN s.lastPrice ELSE basePrice
      pastBase == IF t.pos = "LONG" THEN currentPrice <= basePrice
                                    ELSE currentPrice >= basePrice
  IN IF pastBase THEN _closePosition(s, t, t.pos, "base-close")
     ELSE Suspend(s, t, "replace.placeTp")

\* _placeExitOrders without the closeToTrigger test
_placeExitOrders_CrossedOnly(s, d) ==
  LET pos == s.positions[d]
      currentPrice == IF s.lastPrice # 0 THEN s.lastPrice ELSE GridEntryPrice(d)
      triggerHit == IF d = "LONG" THEN currentPrice <= pos.stopLossPrice
                                  ELSE currentPrice >= pos.stopLossPrice
  IN Suspend(s, [NewTask EXCEPT !.pos = d, !.unsafe = triggerHit], "exits.placeTp")

\* Grid: the synchronous head of _placeExitOrders, up to the TP placement
_placeExitOrders(s, d) ==
  LET pos == s.positions[d]
      \* a Grid position is entered at GridEntryPrice
      currentPrice == IF s.lastPrice # 0 THEN s.lastPrice ELSE GridEntryPrice(d)
      triggerHit == IF d = "LONG" THEN currentPrice <= pos.stopLossPrice
                                  ELSE currentPrice >= pos.stopLossPrice
      \* |currentPrice - stopLossPrice| <= currentPrice * 0.0002
      closeToTrigger == Abs(currentPrice - pos.stopLossPrice) * 10000 <= currentPrice * 2
  IN Suspend(s, [NewTask EXCEPT !.pos = d, !.unsafe = (triggerHit \/ closeToTrigger)],
             "exits.placeTp")

\* _onOrderFilled recording tpHitSide at every take-profit fill
_onOrderFilled_TpAlways(s, id) ==
  LET k == FirstIn(ExitIdSeq(s.pendingExits), {id})
      pendingExit == s.pendingExits[k]
      d == pendingExit.positionId
      s1 == [s EXCEPT !.pendingExits = ExitsWithout(@, id)]
      entryDir == id[1]
      s2 == [s EXCEPT !.pendingEntries = SeqRemove(@, id),
                      !.positions[entryDir] =
                          [open |-> TRUE, isClosing |-> FALSE,
                           takeProfitPrice |-> TakeProfitPrice("GRID", entryDir),
                           stopLossPrice |-> StopLossPrice("GRID", entryDir),
                           tpOrderId |-> NullId, slOrderId |-> NullId],
                      !.posOrder = Append(@, entryDir)]
  IN IF ~s.handlersOn \/ ~s.active THEN s
     ELSE IF id \in SeqRange(s.pendingEntries) THEN _placeExitOrders(s2, entryDir)
     ELSE IF k = 0 THEN s
     ELSE IF ~s1.positions[d].open \/ s1.positions[d].isClosing THEN s1
     ELSE IF strategy = "VOLATILITY" /\ pendingExit.reason = "take-profit"
     THEN _finalizeClose([s1 EXCEPT !.tpHitSide = d], NewTask, d, pendingExit.reason)
     ELSE _finalizeClose(s1, NewTask, d, pendingExit.reason)

\* _onOrderFilled: an entry fill opens the position and starts the exit
\* placement (Grid); an exit fill starts the finalization of its position; a
\* fill that matches no pending entry or exit is dropped
_onOrderFilled(s, id) ==
  LET k == FirstIn(ExitIdSeq(s.pendingExits), {id})
      pendingExit == s.pendingExits[k]
      d == pendingExit.positionId
      s1 == [s EXCEPT !.pendingExits = ExitsWithout(@, id)]
      entryDir == id[1]
      s2 == [s EXCEPT !.pendingEntries = SeqRemove(@, id),
                      !.positions[entryDir] =
                          [open |-> TRUE, isClosing |-> FALSE,
                           takeProfitPrice |-> TakeProfitPrice("GRID", entryDir),
                           stopLossPrice |-> StopLossPrice("GRID", entryDir),
                           tpOrderId |-> NullId, slOrderId |-> NullId],
                      !.posOrder = Append(@, entryDir)]
  IN IF ~s.handlersOn \/ ~s.active THEN s
     ELSE IF id \in SeqRange(s.pendingEntries) THEN _placeExitOrders(s2, entryDir)
     ELSE IF k = 0 THEN s
     ELSE IF ~s1.positions[d].open \/ s1.positions[d].isClosing THEN s1
     ELSE IF strategy = "VOLATILITY" /\ pendingExit.reason = "take-profit"
                                     /\ s1.tpHitSide = "null"
     THEN _finalizeClose([s1 EXCEPT !.tpHitSide = d], NewTask, d, pendingExit.reason)
     ELSE _finalizeClose(s1, NewTask, d, pendingExit.reason)

\* _onOrderCancelled closing the position whatever the cancelled exit was
_onOrderCancelled_AnyExit(s, id) ==
  LET k == FirstIn(ExitIdSeq(s.pendingExits), {id})
      pendingExit == s.pendingExits[k]
      d == pendingExit.positionId
      s1 == [s EXCEPT !.pendingExits = ExitsWithout(@, id)]
  IN IF ~s.handlersOn \/ ~s.active THEN s
     ELSE IF strategy = "GRID" /\ id \in SeqRange(s.pendingEntries)
     THEN [s EXCEPT !.pendingEntries = SeqRemove(@, id)]
     ELSE IF k = 0 THEN s
     ELSE IF s1.positions[d].open /\ ~s1.positions[d].isClosing
     THEN _closePosition(s1, NewTask, d, "sl-rejected")
     ELSE s1

\* _onOrderCancelled: a cancelled entry is forgotten (Grid); a cancelled exit is
\* forgotten and, when it was the stop-loss of a position that is not closing,
\* the position is closed at market (the call is not awaited)
_onOrderCancelled(s, id) ==
  LET k == FirstIn(ExitIdSeq(s.pendingExits), {id})
      pendingExit == s.pendingExits[k]
      d == pendingExit.positionId
      s1 == [s EXCEPT !.pendingExits = ExitsWithout(@, id)]
  IN IF ~s.handlersOn \/ ~s.active THEN s
     ELSE IF strategy = "GRID" /\ id \in SeqRange(s.pendingEntries)
     THEN [s EXCEPT !.pendingEntries = SeqRemove(@, id)]
     ELSE IF k = 0 THEN s
     ELSE IF s1.positions[d].open /\ pendingExit.reason = "stop-loss"
                                  /\ ~s1.positions[d].isClosing
     THEN _closePosition(s1, NewTask, d, "sl-rejected")
     ELSE s1

_onMarkPrice(s, price) ==
  LET s1 == [s EXCEPT !.lastPrice = price]
  IN IF ~s.handlersOn \/ ~s.active THEN s
     ELSE IF mode # "test" \/ Len(s1.posOrder) = 0 THEN s1
     ELSE _maybeForceClose(s1, [NewTask EXCEPT !.outer = "mark", !.rest = s1.posOrder,
                                               !.price = price])

\* _placeEntryOrder with the order sides exchanged
_placeEntryOrder_SidesSwapped(direction, price, levelIndex) ==
  [orderId |-> OrderId(direction, "entry"), direction |-> direction,
   side |-> IF direction = "LONG" THEN "SELL" ELSE "BUY",
   price |-> price, levelIndex |-> levelIndex, reduceOnly |-> FALSE]

\* _placeEntryOrder: the limit order sent to the adapter (side, price,
\* reduceOnly) and the pending entry stored under the returned order id
_placeEntryOrder(direction, price, levelIndex) ==
  [orderId |-> OrderId(direction, "entry"), direction |-> direction,
   side |-> IF direction = "LONG" THEN "BUY" ELSE "SELL",
   price |-> price, levelIndex |-> levelIndex, reduceOnly |-> FALSE]

\* _placeInitialEntries: the LONG entry below and the SHORT entry above basePrice
_placeInitialEntries ==
  <<_placeEntryOrder("LONG", pctChange(BasePrice, 0 - GridSpacingPercent), 0 - 1),
    _placeEntryOrder("SHORT", pctChange(BasePrice, GridSpacingPercent), 1)>>

\* the entry order placed for direction d
EntryOf(d) == IF d = "LONG" THEN _placeInitialEntries[1] ELSE _placeInitialEntries[2]

\* _placeExitOrders: the TP limit order and the SL stop order sent for a
\* position of direction d
TpOrder(d) ==
  [type |-> "LIMIT", side |-> IF d = "LONG" THEN "SELL" ELSE "BUY",
   price |-> TakeProfitPrice(strategy, d), reduceOnly |-> TRUE]
SlOrder(d) ==
  [type |-> "STOP", side |-> IF d = "LONG" THEN "SELL" ELSE "BUY",
   price |-> StopLossPrice(strategy, d), reduceOnly |-> TRUE]

\* what an order was placed as
IsLimit(id) == id[2] \in {"entry", "tp", "tpBase"}
IsBuy(id) ==
  CASE id[2] = "entry" -> EntryOf(id[1]).side = "BUY"
    [] id[2] = "tp" -> TpOrder(id[1]).side = "BUY"
    [] id[2] = "sl" -> SlOrder(id[1]).side = "BUY"
    [] OTHER -> id[1] = "SHORT"
OrderPrice(id) ==
  CASE id[2] = "entry" -> EntryOf(id[1]).price
    [] id[2] = "tp" -> TpOrder(id[1]).price
    [] id[2] = "sl" -> SlOrder(id[1]).price
    [] id[2] = "tpBase" -> BasePrice
    [] OTHER -> StopLossPrice(strategy, id[1])

\* binanceApi.js _simulateFills: does the order trigger at this mark price
Triggers(id, markPrice) ==
  IF IsLimit(id)
  THEN IF IsBuy(id) THEN markPrice <= OrderPrice(id) ELSE markPrice >= OrderPrice(id)
  ELSE IF IsBuy(id) THEN markPrice >= OrderPrice(id) ELSE markPrice <= OrderPrice(id)

\* binanceApi.js _simulateFills over the orders that were resting when it began
RECURSIVE _simulateFills(_, _, _)
_simulateFills(s, todo, markPrice) ==
  IF todo = <<>> THEN s
  ELSE LET id == Head(todo)
       IN IF id \in SeqRange(s.openOrders) /\ Triggers(id, markPrice)
          THEN _simulateFills(_onOrderFilled(Cancelled(s, id), id), Tail(todo), markPrice)
          ELSE _simulateFills(s, Tail(todo), markPrice)

\* _replaceExitsAfterTp without the assignment of takeProfitPrice
ReplaceRecord_KeepOldTp(s, d, slPlaced) ==
  LET tpId == OrderId(d, "tpBase")
      slId == OrderId(d, "sl2")
      s1 == [s EXCEPT !.positions[d].tpOrderId = tpId,
                      !.pendingExits = ExitsSet(@, [orderId |-> tpId, positionId |-> d,
                                                    reason |-> "base-close"])]
      s2 == [Placed(s1, slId) EXCEPT
                !.positions[d].slOrderId = slId,
                !.pendingExits = ExitsSet(@, [orderId |-> slId, positionId |-> d,
                                              reason |-> "stop-loss"])]
  IN IF slPlaced THEN s2 ELSE s1

\* the end of _replaceExitsAfterTp: the new TP is recorded, the SL only if it
\* was placed
ReplaceRecord(s, d, slPlaced) ==
  LET tpId == OrderId(d, "tpBase")
      slId == OrderId(d, "sl2")
      s1 == [s EXCEPT !.positions[d].tpOrderId = tpId,
                      !.positions[d].takeProfitPrice = basePrice,
                      !.pendingExits = ExitsSet(@, [orderId |-> tpId, positionId |-> d,
                                                    reason |-> "base-close"])]
      s2 == [Placed(s1, slId) EXCEPT
                !.positions[d].slOrderId = slId,
                !.pendingExits = ExitsSet(@, [orderId |-> slId, positionId |-> d,
                                              reason |-> "stop-loss"])]
  IN IF slPlaced THEN s2 ELSE s1


\* how an awaited api call may end
Outcomes(t) ==
  IF mode = "test" \/ t.pc = "finalize.summary" THEN {"ok"}
  ELSE IF t.pc \in {"exits.placeSl", "start.placeSl"} THEN {"ok", "-2021", "error"}
  ELSE {"ok", "error"}

\* the SL placement failed: every error handled as -2021 is
PlaceSlFailed_AnyError(s, t, r) ==
  _closePosition(s, t, t.pos, "stop-loss")

\* _placeExitOrders, catch block of the SL placement: -2021 (the stop would
\* trigger immediately) closes the position at market, any other error is
\* rethrown
PlaceSlFailed(s, t, r) ==
  IF r = "-2021" THEN _closePosition(s, t, t.pos, "stop-loss") ELSE Throw(s, t)

\* _placeExitOrders, after both placements: the ids and pending exits recorded
ExitsRecorded(s, d) ==
  LET tpId == OrderId(d, "tp")
      slId == OrderId(d, "sl")
  IN [Placed(s, slId) EXCEPT
         !.positions[d].tpOrderId = tpId,
         !.positions[d].slOrderId = slId,
         !.pendingExits =
             ExitsSet(ExitsSet(@, [orderId |-> tpId, positionId |-> d,
                                   reason |-> "take-profit"]),
                      [orderId |-> slId, positionId |-> d, reason |-> "stop-loss"])]

\* the awaited call of task t returns with outcome r: the code up to the next await
Continue(s, t, r) ==
  LET d == t.pos
      pos == s.positions[d]
      cancelled == IF r = "ok" THEN Cancelled(s, t.cur) ELSE s
  IN CASE t.pc = "finalize.cancelTp" ->
            IF strategy = "GRID"
            THEN IF r # "ok" THEN Throw(s, t)
                 ELSE IF pos.slOrderId # NullId
                 THEN Suspend(cancelled, [t EXCEPT !.cur = pos.slOrderId], "finalize.cancelSl")
                 ELSE FinalizeAfterCancel(cancelled, t)
            ELSE LET s1 == [cancelled EXCEPT !.pendingExits = ExitsWithout(@, pos.tpOrderId)]
                 IN IF pos.slOrderId # NullId
                    THEN Suspend(s1, [t EXCEPT !.cur = pos.slOrderId], "finalize.cancelSl")
                    ELSE FinalizeAfterCancel(s1, t)
       [] t.pc = "finalize.cancelSl" ->
            IF strategy = "GRID"
            THEN IF r # "ok" THEN Throw(s, t) ELSE FinalizeAfterCancel(cancelled, t)
            ELSE FinalizeAfterCancel(
                   [cancelled EXCEPT !.pendingExits = ExitsWithout(@, pos.slOrderId)], t)
       [] t.pc = "finalize.summary" -> FinalizeRecord(s, t)
       [] t.pc = "destroy.cancelEntry" ->
            DestroyCancelEntries(cancelled, [t EXCEPT !.visited = @ \cup {t.cur}])
       [] t.pc = "destroy.cancelExit" ->
            DestroyCancelExits(cancelled, [t EXCEPT !.visited = @ \cup {t.cur}])
       [] t.pc = "destroy.cancelAll" ->
            IF r # "ok" THEN Throw(s, t)
            ELSE DestroyAfterCancelAll([s EXCEPT !.openOrders = <<>>], t)
       [] t.pc = "close.market" ->
            IF r # "ok" THEN Throw(s, t) ELSE _finalizeClose(s, t, d, t.reason)
       [] t.pc = "replace.cancelTp" ->
            ReplaceCancelSl([cancelled EXCEPT !.pendingExits = ExitsWithout(@, pos.tpOrderId),
                                              !.positions[d].tpOrderId = NullId], t)
       [] t.pc = "replace.cancelSl" ->
            ReplaceDecide([cancelled EXCEPT !.pendingExits = ExitsWithout(@, pos.slOrderId),
                                            !.positions[d].slOrderId = NullId], t)
       [] t.pc = "replace.placeTp" ->
            IF r # "ok" THEN _closePosition(s, t, d, "base-close")
            ELSE Suspend(Placed(s, OrderId(d, "tpBase")), t, "replace.placeSl")
       [] t.pc = "replace.placeSl" -> Return(ReplaceRecord(s, d, r = "ok"), t)
       [] t.pc = "exits.placeTp" ->
            IF r # "ok" THEN Throw(s, t)
            ELSE IF t.unsafe THEN _closePosition(Placed(s, OrderId(d, "tp")), t, d, "stop-loss")
            ELSE Suspend(Placed(s, OrderId(d, "tp")), t, "exits.placeSl")
       [] t.pc = "exits.placeSl" ->
            IF r = "ok" THEN Return(ExitsRecorded(s, d), t) ELSE PlaceSlFailed(s, t, r)
       [] t.pc = "start.placeTp" ->
            IF r # "ok" THEN Throw(s, t)
            ELSE Suspend(Placed(s, OrderId(d, "tp")), t, "start.placeSl")
       [] t.pc = "start.placeSl" ->
            IF r = "ok" THEN Return(ExitsRecorded(s, d), t) ELSE PlaceSlFailed(s, t, r)

(***************************************************************************)
(* Trader actions                                                          *)
(***************************************************************************)
\* start() ran to its end: orders placed, handlers registered
Start ==
  /\ phase = "new"
  /\ phase' = "started"
  /\ basePrice' = BasePrice
  /\ lastPrice' = BasePrice
  /\ handlersOn' = TRUE
  /\ IF strategy = "GRID"
     THEN /\ pendingEntries' = [i \in 1..2 |-> _placeInitialEntries[i].orderId]
          /\ openOrders' = [i \in 1..2 |-> _placeInitialEntries[i].orderId]
          /\ UNCHANGED <<positions, posOrder, pendingExits>>
     ELSE /\ positions' = [d \in Dirs |->
                             [open |-> TRUE, isClosing |-> FALSE,
                              takeProfitPrice |-> TakeProfitPrice("VOLATILITY", d),
                              stopLossPrice |-> StopLossPrice("VOLATILITY", d),
                              tpOrderId |-> OrderId(d, "tp"), slOrderId |-> OrderId(d, "sl")]]
          /\ posOrder' = DirOrder
          /\ pendingExits' =
               <<[orderId |-> OrderId("LONG", "tp"), positionId |-> "LONG", reason |-> "take-profit"],
                 [orderId |-> OrderId("LONG", "sl"), positionId |-> "LONG", reason |-> "stop-loss"],
                 [orderId |-> OrderId("SHORT", "tp"), positionId |-> "SHORT", reason |-> "take-profit"],
                 [orderId |-> OrderId("SHORT", "sl"), positionId |-> "SHORT", reason |-> "stop-loss"]>>
          /\ openOrders' = <<OrderId("LONG", "tp"), OrderId("LONG", "sl"),
                             OrderId("SHORT", "tp"), OrderId("SHORT", "sl")>>
          /\ UNCHANGED pendingEntries
  /\ UNCHANGED <<strategy, active, tpHitSide, tradeHistory, tasks, offCalls, removeTraderCalls,
                 onDestroyCalls, destroyResult, unhandled, firstTpFinalized,
                 recordTradeCalls, replaceCalls, destroyReason>>

\* start() threw at its first order placement
StartFail ==
  /\ phase = "new"
  /\ phase' = "failed"
  /\ basePrice' = BasePrice
  /\ lastPrice' = BasePrice
  /\ UNCHANGED <<strategy, active, handlersOn, positions, posOrder, pendingEntries, pendingExits,
                 tpHitSide, tradeHistory, openOrders, tasks, offCalls, removeTraderCalls,
                 onDestroyCalls, destroyResult, unhandled, firstTpFinalized,
                 recordTradeCalls, replaceCalls, destroyReason>>

\* Volatility start() in live mode, up to an SL placement that the exchange
\* rejected with -2021: both legs are open, the exits of the LONG leg are
\* recorded when the rejected placement is the SHORT leg's, the TP of leg d
\* rests on the exchange, and the market close of leg d is awaited
StartSlRejected(d) ==
  /\ phase = "new"
  /\ strategy = "VOLATILITY"
  /\ mode = "live"
  /\ basePrice' = BasePrice
  /\ UNCHANGED strategy
  /\ LET opened == [TS EXCEPT
                      !.phase = "starting",
                      !.lastPrice = BasePrice,
                      !.positions = [x \in Dirs |->
                          [open |-> TRUE, isClosing |-> FALSE,
                           takeProfitPrice |-> TakeProfitPrice("VOLATILITY", x),
                           stopLossPrice |-> StopLossPrice("VOLATILITY", x),
                           tpOrderId |-> NullId, slOrderId |-> NullId]],
                      !.posOrder = DirOrder]
         first == IF d = "SHORT" THEN ExitsRecorded(Placed(opened, OrderId("LONG", "tp")), "LONG")
                  ELSE opened
         s == PlaceSlFailed(Placed(first, OrderId(d, "tp")),
                            [NewTask EXCEPT !.pos = d, !.outer = "start"], "-2021")
     IN /\ phase' = s.phase
        /\ active' = s.active
        /\ handlersOn' = s.handlersOn
        /\ lastPrice' = s.lastPrice
        /\ positions' = s.positions
        /\ posOrder' = s.posOrder
        /\ pendingExits' = s.pendingExits
        /\ openOrders' = s.openOrders
        /\ tasks' = s.tasks
        /\ UNCHANGED <<pendingEntries, tpHitSide, tradeHistory, offCalls, removeTraderCalls,
                       onDestroyCalls, destroyResult, unhandled, firstTpFinalized,
                 recordTradeCalls, replaceCalls, destroyReason>>

\* simulator: a mark price message; markPrice is emitted, then _simulateFills runs
PriceTick(price) ==
  /\ mode = "test"
  /\ phase = "started"
  /\ LET s1 == _onMarkPrice(TS, price)
     IN Commit(_simulateFills(s1, s1.openOrders, price))

\* live: a mark price message
MarkPrice(price) ==
  /\ mode = "live"
  /\ phase = "started"
  /\ Commit(_onMarkPrice(TS, price))

\* live: the exchange fills a resting order and reports it on the user stream
ExchangeFill(id) ==
  /\ mode = "live"
  /\ id \in SeqRange(openOrders)
  /\ Commit(_onOrderFilled(Cancelled(TS, id), id))

\* live: the exchange rejects or expires a resting order and reports it on the
\* user stream (orderCancelled)
ExchangeCancel(id) ==
  /\ mode = "live"
  /\ id \in SeqRange(openOrders)
  /\ Commit(_onOrderCancelled(Cancelled(TS, id), id))

\* an awaited api call returns
Resume(t, r) ==
  /\ BagIn(t, tasks)
  /\ r \in Outcomes(t)
  /\ Commit(Continue([TS EXCEPT !.tasks = @ (-) SetToBag({t})], t, r))

\* destroy without the guard on this.active
ExternalDestroy_NoGuard ==
  /\ phase \in {"started", "failed"}
  /\ Len(destroyResult) < MaxDestroyCalls
  /\ LET k == Len(destroyResult) + 1
     IN Commit(DestroyBody([TS EXCEPT !.destroyResult = Append(@, "pending")],
                           [NewTask EXCEPT !.ext = k, !.outer = "destroy"]))

\* destroy(reason) called from outside the Trader
ExternalDestroy ==
  /\ phase \in {"started", "failed"}
  /\ Len(destroyResult) < MaxDestroyCalls
  /\ LET k == Len(destroyResult) + 1
     IN IF ~active
        THEN Commit([TS EXCEPT !.destroyResult = Append(@, "ok")])
        ELSE Commit(DestroyBody([TS EXCEPT !.destroyResult = Append(@, "pending")],
                                [NewTask EXCEPT !.ext = k, !.outer = "destroy"]))

(***************************************************************************)
(* Account synchronisation: Controller._syncAccount and the trader         *)
(* snapshots the store keeps (upsertTrader / removeTrader)                 *)
(***************************************************************************)
VARIABLES
  activeTraders,   \* state.activeTraders: trader id -> snapshot (its unrealizedPnl)
  syncCalls        \* the _syncAccount calls suspended in await api.getBalance()

accountVars == <<activeTraders, syncCalls>>

\* largest magnitude of an unrealised P&L a Trader reports
MaxUnrealized == 1
\* _syncAccount calls in flight at once
MaxSyncCalls == 1

\* an id that is not a key of the Map
NoSnapshot == [present |-> FALSE, unrealizedPnl |-> 0]
\* the keys of the Map
SnapshotIds(snaps) == {id \in Symbols : snaps[id].present}

AccountInit ==
  /\ activeTraders = [id \in Symbols |-> NoSnapshot]
  /\ syncCalls = 0

\* store.upsertTrader: { ...prev, ...trader } keyed by trader.id
upsertTrader(id, unrealized) ==
  /\ activeTraders' = [activeTraders EXCEPT
                          ![id] = [present |-> TRUE, unrealizedPnl |-> unrealized]]
  /\ UNCHANGED syncCalls

\* store.removeTrader
removeTrader(id) ==
  /\ activeTraders' = [activeTraders EXCEPT ![id] = NoSnapshot]
  /\ UNCHANGED syncCalls

\* traders.reduce((sum, trader) => sum + (trader.unrealizedPnl || 0), 0)
RECURSIVE SumUnrealized(_, _)
SumUnrealized(snaps, ids) ==
  IF ids = {} THEN 0
  ELSE LET x == CHOOSE y \in ids : TRUE
       IN snaps[x].unrealizedPnl + SumUnrealized(snaps, ids \ {x})

\* _syncAccount is called: it suspends in await api.getBalance()
SyncBegin ==
  /\ syncCalls < MaxSyncCalls
  /\ syncCalls' = syncCalls + 1
  /\ UNCHANGED activeTraders

\* api.getBalance() returned apiBalance: setBalance, then setEquity(balance + unrealized)
_syncAccount(apiBalance) ==
  LET newBalance == IF mode = "test" THEN StartingBalance + performance.netProfit
                    ELSE apiBalance
      value == newBalance + SumUnrealized(activeTraders, SnapshotIds(activeTraders))
      peak == IF value > peakEquity THEN value ELSE peakEquity
      drawdown == IF peak = 0 THEN [num |-> 0, den |-> 1]
                  ELSE [num |-> peak - value, den |-> peak]
      pushed == Append(equityHistory, Num(value))
  IN /\ syncCalls > 0
     /\ syncCalls' = syncCalls - 1
     /\ balance' = newBalance
     /\ equity' = Num(value)
     /\ peakEquity' = peak
     /\ performance' = [performance EXCEPT !.maxDrawdown =
                          IF FracGT(drawdown, @) THEN drawdown ELSE @]
     /\ equityHistory' = IF Len(pushed) > EquityHistoryCap THEN Tail(pushed) ELSE pushed
     /\ equityLog' = Append(equityLog, value)
     /\ UNCHANGED <<pnlToday, tradeLog, activeTraders>>

(***************************************************************************)
(* Exchange adapter: the market-stream subscription (BinanceApi)           *)
(***************************************************************************)
VARIABLES
  symbolStreams,   \* this.symbolStreams
  ws,              \* this.ws: the socket it refers to (0 = null)
  sockets,         \* every market socket created so far: "connecting", "open", "failed"
                   \* (error reported), "terminated" (close still to come) or "closed"
  reconnectTimer,  \* this.reconnectTimer is set
  pendingTimers,   \* the reconnect timeouts that are set and neither fired nor cleared
  marketStatus,    \* store marketStatus.ws
  lastWsEvent,     \* history: the last socket event and whether its handler acted
  scheduledFor,    \* history: the sockets whose events set a reconnect timeout, in order
  lastUpdate       \* history: what the last updateSymbols call did ("none" before the first)

streamVars == <<symbolStreams, ws, sockets, reconnectTimer, pendingTimers, marketStatus,
                lastWsEvent, scheduledFor, lastUpdate>>

\* market sockets created in one run
MaxSockets == 3
\* length of the symbol list handed to updateSymbols
MaxSymbolList == 2

StreamInit ==
  /\ symbolStreams = {}
  /\ ws = 0
  /\ sockets = <<>>
  /\ reconnectTimer = FALSE
  /\ pendingTimers = 0
  /\ marketStatus = "idle"
  /\ lastWsEvent = [kind |-> "none", socket |-> 0, acted |-> FALSE]
  /\ scheduledFor = <<>>
  /\ lastUpdate = "none"

\* the arguments of updateSymbols: arrays of symbols, duplicates allowed
SymbolLists == UNION {[1..n -> Symbols] : n \in 0..MaxSymbolList}

\* new Set(symbols)
NewSet(list) == {list[i] : i \in 1..Len(list)}

\* updateSymbols comparing the sizes only
StreamsChanged_SizeOnly(next) ==
  Cardinality(next) # Cardinality(symbolStreams)

\* next.size !== this.symbolStreams.size || [...next].some((s) => !this.symbolStreams.has(s))
StreamsChanged(next) ==
  \/ Cardinality(next) # Cardinality(symbolStreams)
  \/ \E x \in next : x \notin symbolStreams

\* a socket that is connecting or connected
Alive(state) == state \in {"connecting", "open"}

\* this.ws.terminate(): the socket's close event is still to come
Terminate(socks, id) ==
  IF id # 0 /\ Alive(socks[id]) THEN [socks EXCEPT ![id] = "terminated"] ELSE socks

\* _connectMarketWs with the membership streams, which runs without suspending:
\* the socket this.ws referred to before is left as it is
_connectMarketWs(streams, socks) ==
  IF streams = {}
  THEN /\ marketStatus' = "idle"
       /\ sockets' = socks
       /\ UNCHANGED ws
  ELSE /\ Len(socks) < MaxSockets
       /\ sockets' = Append(socks, "connecting")
       /\ ws' = Len(socks) + 1
       /\ UNCHANGED marketStatus

\* updateSymbols(symbols)
updateSymbols(list) ==
  LET next == NewSet(list)
  IN IF ~StreamsChanged(next)
     THEN /\ lastUpdate' = "same"
          /\ UNCHANGED <<symbolStreams, ws, sockets, reconnectTimer, pendingTimers,
                         marketStatus, lastWsEvent, scheduledFor>>
     ELSE /\ lastUpdate' = "changed"
          /\ symbolStreams' = next
          /\ _connectMarketWs(next, Terminate(sockets, ws))
          /\ UNCHANGED <<reconnectTimer, pendingTimers, lastWsEvent, scheduledFor>>

\* _scheduleReconnect without the timer token
_scheduleReconnect_NoToken ==
  IF symbolStreams = {}
  THEN UNCHANGED <<reconnectTimer, pendingTimers>>
  ELSE /\ reconnectTimer' = TRUE
       /\ pendingTimers' = pendingTimers + 1

\* _scheduleReconnect
_scheduleReconnect ==
  IF reconnectTimer \/ symbolStreams = {}
  THEN UNCHANGED <<reconnectTimer, pendingTimers>>
  ELSE /\ reconnectTimer' = TRUE
       /\ pendingTimers' = pendingTimers + 1

\* a handler that returns at once: if (this.ws !== ws) return
Ignored == UNCHANGED <<reconnectTimer, pendingTimers, marketStatus>>

\* the open event of a socket
WsOpen(id) ==
  /\ sockets[id] = "connecting"
  /\ sockets' = [sockets EXCEPT ![id] = "open"]
  /\ lastWsEvent' = [kind |-> "open", socket |-> id, acted |-> ws = id]
  /\ IF ws # id THEN Ignored
     ELSE /\ marketStatus' = "connected"
          /\ reconnectTimer' = FALSE
          /\ pendingTimers' = IF reconnectTimer THEN pendingTimers - 1 ELSE pendingTimers
  /\ UNCHANGED <<symbolStreams, ws, scheduledFor, lastUpdate>>

\* a message event of a connected socket: markPrice or bookTicker is emitted
WsMessage(id) ==
  /\ sockets[id] = "open"
  /\ lastWsEvent' = [kind |-> "message", socket |-> id, acted |-> ws = id]
  /\ UNCHANGED <<symbolStreams, ws, sockets, reconnectTimer, pendingTimers, marketStatus,
                 scheduledFor, lastUpdate>>

\* the watchdog interval of the current socket finds it stale: ws.terminate()
WatchdogFires ==
  /\ ws # 0 /\ Alive(sockets[ws])
  /\ sockets' = Terminate(sockets, ws)
  /\ UNCHANGED <<symbolStreams, ws, reconnectTimer, pendingTimers, marketStatus, lastWsEvent,
                 scheduledFor, lastUpdate>>

\* the close event of a socket (after terminate, an error, or the connection dropped)
WsClose(id) ==
  /\ sockets[id] # "closed"
  /\ sockets' = [sockets EXCEPT ![id] = "closed"]
  /\ lastWsEvent' = [kind |-> "close", socket |-> id, acted |-> ws = id]
  /\ IF ws # id THEN Ignored
     ELSE marketStatus' = "disconnected" /\ _scheduleReconnect
  /\ scheduledFor' = IF pendingTimers' > pendingTimers THEN Append(scheduledFor, id)
                     ELSE scheduledFor
  /\ UNCHANGED <<symbolStreams, ws, lastUpdate>>

\* an error event of a socket, before or after its close event
WsError(id) ==
  /\ sockets' = [sockets EXCEPT ![id] = IF Alive(@) THEN "failed" ELSE @]
  /\ lastWsEvent' = [kind |-> "error", socket |-> id, acted |-> ws = id]
  /\ IF ws # id THEN Ignored
     ELSE marketStatus' = "error" /\ _scheduleReconnect
  /\ scheduledFor' = IF pendingTimers' > pendingTimers THEN Append(scheduledFor, id)
                     ELSE scheduledFor
  /\ UNCHANGED <<symbolStreams, ws, lastUpdate>>

\* a reconnect timeout fires: this.reconnectTimer = null; this._connectMarketWs()
ReconnectFires ==
  /\ pendingTimers > 0
  /\ reconnectTimer' = FALSE
  /\ pendingTimers' = pendingTimers - 1
  /\ _connectMarketWs(symbolStreams, sockets)
  /\ lastWsEvent' = [kind |-> "reconnect", socket |-> 0, acted |-> TRUE]
  /\ UNCHANGED <<symbolStreams, scheduledFor, lastUpdate>>

(***************************************************************************)
(* Exchange adapter: the order simulator of test mode (BinanceApi          *)
(* testOrders, lastSimPrice, _simulateFills)                               *)
(***************************************************************************)
VARIABLES
  testOrders,      \* this.testOrders, in insertion order
  lastSimPrice,    \* this.lastSimPrice, by symbol (NoPrice = no entry)
  nextTestOrder,   \* how many test orders were placed so far
  simFills,        \* history: the fills of the last _simulateFills call, in emission order
  simPrevPrice,    \* history: prevPrice of the last _simulateFills call
  simMarkPrice,    \* history: markPrice of the last _simulateFills call
  simEmitted       \* history: orderFilled events emitted so far, by order

simVars == <<testOrders, lastSimPrice, nextTestOrder, simFills, simPrevPrice, simMarkPrice,
             simEmitted>>

\* test orders placed in one run
MaxTestOrders == 2
\* an absent number (undefined): not Number.isFinite
NoPrice == 0
\* the prices of the simulated feed and of the orders
SimPrices == {98, 99, 100}
\* the quantity of the orders placed while the feed ticks
SimQuantities == {1}
\* the limit price given with a stop order: none (as the Traders do) or one
StopLimitPrices == {NoPrice, 100}

(***************************************************************************)
(* The simulated account of test mode: BinanceApi.testPositions and        *)
(* testBalance, changed by _realizePnl. Prices and amounts of money are    *)
(* exact fractions [num, den] with den > 0, in lowest terms.               *)
(***************************************************************************)
VARIABLES
  testPositions,   \* this.testPositions: symbol -> [qty, entryPrice]
  testBalance,     \* this.testBalance
  realizeLog,      \* history: the _realizePnl calls of the last operation that made any
  marketOrders     \* history: how many market orders were placed in test mode

walletVars == <<testPositions, testBalance, realizeLog, marketOrders>>

\* market orders placed in one run
MaxMarketOrders == 2

RECURSIVE GCD(_, _)
GCD(a, b) == IF b = 0 THEN a ELSE GCD(b, a % b)

FracNorm(f) ==
  LET g == GCD(Abs(f.num), f.den)
  IN [num |-> f.num \div g, den |-> f.den \div g]
FracOf(n) == [num |-> n, den |-> 1]
FracAdd(a, b) == FracNorm([num |-> a.num * b.den + b.num * a.den, den |-> a.den * b.den])
FracSub(a, b) == FracNorm([num |-> a.num * b.den - b.num * a.den, den |-> a.den * b.den])
FracMul(a, b) == FracNorm([num |-> a.num * b.num, den |-> a.den * b.den])
\* a / n for an integer n > 0
FracOver(a, n) == FracNorm([num |-> a.num, den |-> a.den * n])

\* config.feeRate
feeRate == [num |-> 1, den |-> 100]

\* Math.sign
MathSign(x) == IF x > 0 THEN 1 ELSE IF x < 0 THEN 0 - 1 ELSE 0

\* this.testPositions.get(symbol) || { qty: 0, entryPrice: 0 }
FlatPosition == [qty |-> 0, entryPrice |-> FracOf(0)]

WalletInit ==
  /\ testPositions = [symbol \in Symbols |-> FlatPosition]
  /\ testBalance = FracOf(StartingBalance)
  /\ realizeLog = <<>>
  /\ marketOrders = 0

\* the account as one value: what _realizePnl reads and writes
Wallet == [testPositions |-> testPositions, testBalance |-> testBalance, realizeLog |-> <<>>]

\* _realizePnl(symbol, deltaQty, price)
_realizePnl(w, symbol, deltaQty, price) ==
  LET pos == w.testPositions[symbol]
      newQty == pos.qty + deltaQty
      adds == pos.qty = 0 \/ MathSign(pos.qty) = MathSign(newQty)
      totalNotional == FracAdd(FracMul(pos.entryPrice, FracOf(Abs(pos.qty))),
                               FracOf(price * Abs(deltaQty)))
      totalQty == Abs(pos.qty) + Abs(deltaQty)
      avgPrice == IF totalQty = 0 THEN FracOf(0) ELSE FracOver(totalNotional, totalQty)
      closedQty == IF Abs(pos.qty) < Abs(deltaQty) THEN Abs(pos.qty) ELSE Abs(deltaQty)
      direction == IF pos.qty > 0 THEN 1 ELSE 0 - 1
      pnl == IF adds THEN FracOf(0)
             ELSE FracMul(FracSub(FracOf(price), pos.entryPrice), FracOf(closedQty * direction))
      remainingQty == newQty
      after == IF adds THEN [qty |-> newQty, entryPrice |-> avgPrice]
               ELSE [qty |-> remainingQty,
                     entryPrice |-> IF remainingQty = 0 THEN FracOf(0) ELSE FracOf(price)]
      fee == FracMul(FracOf(Abs(deltaQty * price)), feeRate)
      net == FracSub(pnl, fee)
  IN [testPositions |-> [w.testPositions EXCEPT ![symbol] = after],
      testBalance |-> FracAdd(w.testBalance, net),
      realizeLog |-> Append(w.realizeLog,
                            [symbol |-> symbol, deltaQty |-> deltaQty, price |-> price,
                             before |-> pos, after |-> after, pnl |-> pnl, fee |-> fee,
                             balanceBefore |-> w.testBalance,
                             balanceAfter |-> FracAdd(w.testBalance, net)])]

\* the account after an operation that made the calls of w.realizeLog
SetWallet(w) ==
  /\ testPositions' = w.testPositions
  /\ testBalance' = w.testBalance
  /\ realizeLog' = IF w.realizeLog = <<>> THEN realizeLog ELSE w.realizeLog

\* const qty = side === "BUY" ? quantity : -quantity
SignedQty(side, quantity) == IF side = "BUY" THEN quantity ELSE 0 - quantity

\* placeMarketOrder in test mode; price is what _getFillPrice returns
placeMarketOrder(symbol, side, quantity, price) ==
  /\ marketOrders < MaxMarketOrders
  /\ marketOrders' = marketOrders + 1
  /\ SetWallet(_realizePnl(Wallet, symbol, SignedQty(side, quantity), price))

SimInit ==
  /\ testOrders = <<>>
  /\ lastSimPrice = [symbol \in Symbols |-> NoPrice]
  /\ nextTestOrder = 0
  /\ simFills = <<>>
  /\ simPrevPrice = NoPrice
  /\ simMarkPrice = NoPrice
  /\ simEmitted = [id \in 1..MaxTestOrders |-> 0]

\* placeLimitOrder in test mode
placeLimitOrder(symbol, side, price, quantity) ==
  /\ nextTestOrder < MaxTestOrders
  /\ nextTestOrder' = nextTestOrder + 1
  /\ testOrders' = Append(testOrders,
                          [orderId |-> nextTestOrder + 1, symbol |-> symbol, side |-> side,
                           type |-> "LIMIT", price |-> price, stopPrice |-> NoPrice,
                           quantity |-> quantity])
  /\ UNCHANGED <<lastSimPrice, simFills, simPrevPrice, simMarkPrice, simEmitted, walletVars>>

\* placeStopLimitOrder in test mode; price is NoPrice when the caller gives none
placeStopLimitOrder(symbol, side, stopPrice, price, quantity) ==
  /\ nextTestOrder < MaxTestOrders
  /\ nextTestOrder' = nextTestOrder + 1
  /\ testOrders' = Append(testOrders,
                          [orderId |-> nextTestOrder + 1, symbol |-> symbol, side |-> side,
                           type |-> "STOP_MARKET", price |-> price, stopPrice |-> stopPrice,
                           quantity |-> quantity])
  /\ UNCHANGED <<lastSimPrice, simFills, simPrevPrice, simMarkPrice, simEmitted, walletVars>>

\* cancelOrder in test mode
cancelTestOrder(orderId) ==
  /\ testOrders' = SelectSeq(testOrders, LAMBDA o : o.orderId # orderId)
  /\ UNCHANGED <<lastSimPrice, nextTestOrder, simFills, simPrevPrice, simMarkPrice, simEmitted,
                 walletVars>>

\* trigger with a stop order compared like a limit order
trigger_StopLikeLimit(order, markPrice) ==
  IF order.side = "BUY" THEN markPrice <= (IF order.type = "LIMIT" THEN order.price
                                                                  ELSE order.stopPrice)
  ELSE markPrice >= (IF order.type = "LIMIT" THEN order.price ELSE order.stopPrice)

\* _simulateFills: let trigger
trigger(order, markPrice) ==
  IF order.type = "LIMIT"
  THEN IF order.side = "BUY" THEN markPrice <= order.price ELSE markPrice >= order.price
  ELSE IF order.side = "BUY" THEN markPrice >= order.stopPrice
                             ELSE markPrice <= order.stopPrice

\* filledImmediately when the first tick of a symbol is not counted
filledImmediately_PrevOnly(order, prevPrice) ==
  /\ order.type # "LIMIT"
  /\ prevPrice # NoPrice
  /\ IF order.side = "BUY" THEN prevPrice >= order.stopPrice
                           ELSE prevPrice <= order.stopPrice

\* _simulateFills: const filledImmediately ("stop already passed")
filledImmediately(order, prevPrice) ==
  /\ order.type # "LIMIT"
  /\ \/ prevPrice = NoPrice
     \/ IF order.side = "BUY" THEN prevPrice >= order.stopPrice
                              ELSE prevPrice <= order.stopPrice

\* _simulateFills: const fillPrice
fillPrice(order) == IF order.price # NoPrice THEN order.price ELSE order.stopPrice

\* _simulateFills: this._realizePnl(symbol, qty, fillPrice) for each filled order
RECURSIVE RealizeFills(_, _, _)
RealizeFills(w, symbol, filled) ==
  IF filled = <<>> THEN w
  ELSE RealizeFills(_realizePnl(w, symbol,
                                SignedQty(Head(filled).side, Head(filled).quantity),
                                fillPrice(Head(filled))),
                    symbol, Tail(filled))

\* _simulateFills(symbol, markPrice)
SimulateFills(symbol, markPrice) ==
  LET prevPrice == lastSimPrice[symbol]
      hit(o) == o.symbol = symbol /\ trigger(o, markPrice)
      filled == SelectSeq(testOrders, hit)
  IN /\ testOrders' = SelectSeq(testOrders, LAMBDA o : ~hit(o))
     /\ simFills' = [i \in 1..Len(filled) |->
                       [order |-> filled[i], price |-> fillPrice(filled[i]),
                        alreadyPassed |-> filledImmediately(filled[i], prevPrice)]]
     /\ lastSimPrice' = [lastSimPrice EXCEPT ![symbol] = markPrice]
     /\ simPrevPrice' = prevPrice
     /\ simMarkPrice' = markPrice
     /\ simEmitted' = [id \in 1..MaxTestOrders |->
                         simEmitted[id] + Len(SelectSeq(filled, LAMBDA o : o.orderId = id))]
     /\ SetWallet(RealizeFills(Wallet, symbol, filled))
     /\ UNCHANGED <<nextTestOrder, marketOrders>>

(***************************************************************************)
(* Exchange adapter: order ids in live mode (BinanceApi placeLimitOrder,   *)
(* placeStopLimitOrder, _handleOrderUpdate) and the lookup the Traders do  *)
(* with them (_findPending).  An id is a JavaScript value: a number, a     *)
(* string of digits, a "BOT-..." string, another string, or undefined.     *)
(***************************************************************************)
VARIABLES
  algoIdToClientId,  \* this.algoIdToClientId, keyed by String(algoId) (NoId = no entry)
  liveOrders,        \* the orders sent to the exchange: ids assigned, what the placement returned
  lastEmit           \* history: the last user-data message and the event emitted for it

idVars == <<algoIdToClientId, liveOrders, lastEmit>>
adapterVars == <<streamVars, simVars, idVars, walletVars>>

\* orders placed in one run
MaxLiveOrders == 2

NoId == <<"undefined">>
IdNumber(n) == <<"number", n>>
IdDigits(n) == <<"digits", n>>
\* `BOT-${Date.now()}-${random}`, taken to be different for every placement
IdBot(n) == <<"BOT-", n>>
\* a client order id generated by the exchange
IdOther(n) == <<"other", n>>

\* String(id)
StringOf(id) == IF id[1] = "number" THEN IdDigits(id[2]) ELSE id
\* Number(id) of a string of digits
NumberOf(id) == IF id[1] = "digits" THEN IdNumber(id[2]) ELSE id
\* a || b
OrElse(a, b) == IF a # NoId THEN a ELSE b

\* the ids the exchange gives out: algo ids and order ids are separate series
ExchangeNumbers == 1..MaxLiveOrders

NoEmit == [order |-> 0, placed |-> FALSE, emitted |-> FALSE,
           c |-> NoId, algoId |-> NoId, i |-> NoId,
           orderId |-> NoId, numericOrderId |-> NoId, clientOrderId |-> NoId]

IdsInit ==
  /\ algoIdToClientId = [a \in {IdDigits(n) : n \in ExchangeNumbers} |-> NoId]
  /\ liveOrders = <<>>
  /\ lastEmit = NoEmit

AlgoIdsUsed == {liveOrders[k].algoId : k \in 1..Len(liveOrders)}
OrderIdsUsed == {liveOrders[k].numeric : k \in 1..Len(liveOrders)}

\* placeLimitOrder in live mode: the REST response is returned as it is, its
\* orderId is the numeric order id
LivePlaceLimit(n) ==
  /\ Len(liveOrders) < MaxLiveOrders
  /\ IdNumber(n) \notin OrderIdsUsed
  /\ liveOrders' = Append(liveOrders,
                          [kind |-> "plain", clientAlgoId |-> NoId, algoId |-> NoId,
                           numeric |-> IdNumber(n), returned |-> IdNumber(n)])
  /\ UNCHANGED <<algoIdToClientId, lastEmit>>

\* placeStopLimitOrder in live mode, up to await this._sendOrder: the request
\* carries clientAlgoId, the exchange gives the order its algoId
LivePlaceStopSend(a) ==
  /\ Len(liveOrders) < MaxLiveOrders
  /\ IdNumber(a) \notin AlgoIdsUsed
  /\ liveOrders' = Append(liveOrders,
                          [kind |-> "algo", clientAlgoId |-> IdBot(Len(liveOrders) + 1),
                           algoId |-> IdNumber(a), numeric |-> NoId, returned |-> NoId])
  /\ UNCHANGED <<algoIdToClientId, lastEmit>>

\* placeStopLimitOrder after the response: the algoId is mapped to the client
\* id and the orderId returned is result.clientAlgoId || clientAlgoId
LivePlaceStopReturn(k, echoed) ==
  LET o == liveOrders[k]
      resultClientAlgoId == IF echoed THEN o.clientAlgoId ELSE NoId
      algoId == o.algoId
      orderId == OrElse(resultClientAlgoId, OrElse(o.clientAlgoId, algoId))
  IN /\ o.kind = "algo" /\ o.returned = NoId
     /\ algoIdToClientId' = [algoIdToClientId EXCEPT ![StringOf(algoId)] = o.clientAlgoId]
     /\ liveOrders' = [liveOrders EXCEPT ![k].returned = orderId]
     /\ UNCHANGED lastEmit

\* the lookup of the mapped client id of an algoId (NoId = none)
MappedClientId(algoId) ==
  IF algoId # NoId /\ StringOf(algoId) \in DOMAIN algoIdToClientId
  THEN algoIdToClientId[StringOf(algoId)] ELSE NoId

\* _handleOrderUpdate with the numeric order id taken first
_handleOrderUpdate_NumericFirst(clientOrderId, algoId, numericOrderId) ==
  IF numericOrderId # NoId THEN numericOrderId
  ELSE IF clientOrderId[1] = "BOT-" THEN clientOrderId
  ELSE IF MappedClientId(algoId) # NoId THEN MappedClientId(algoId)
  ELSE OrElse(clientOrderId, algoId)

\* _handleOrderUpdate: the orderId of the emitted event
_handleOrderUpdate(clientOrderId, algoId, numericOrderId) ==
  IF clientOrderId[1] = "BOT-" THEN clientOrderId
  ELSE IF MappedClientId(algoId) # NoId THEN MappedClientId(algoId)
  ELSE OrElse(numericOrderId, OrElse(clientOrderId, algoId))

\* a user-data message about order k with client id c, algo id algoId and
\* numeric order id i, in status X
UserDataMessage(k, c, algoId, i, status) ==
  /\ lastEmit' = [order |-> k, placed |-> liveOrders[k].returned # NoId,
                  emitted |-> status \in {"FILLED", "REJECTED", "EXPIRED", "CANCELLED"},
                  c |-> c, algoId |-> algoId, i |-> i,
                  orderId |-> _handleOrderUpdate(c, algoId, i),
                  numericOrderId |-> NumberOf(i),
                  clientOrderId |-> c]
  /\ UNCHANGED <<algoIdToClientId, liveOrders>>

\* _findPending(map, event), map given by its keys: the key found (NoId = null)
_findPending(keys, event) ==
  IF event.orderId \in keys THEN event.orderId
  ELSE IF event.numericOrderId # NoId /\ event.numericOrderId \in keys
  THEN event.numericOrderId
  ELSE IF event.numericOrderId # NoId /\ StringOf(event.numericOrderId) \in keys
  THEN StringOf(event.numericOrderId)
  ELSE IF event.clientOrderId # NoId /\ event.clientOrderId \in keys
  THEN event.clientOrderId
  ELSE IF event.orderId[1] = "number" /\ StringOf(event.orderId) \in keys
  THEN StringOf(event.orderId)
  ELSE IF event.orderId[1] = "digits" /\ NumberOf(event.orderId) \in keys
  THEN NumberOf(event.orderId)
  ELSE NoId

\* the keys of pendingEntriesById / pendingExitsById: the orderId every
\* placement returned
PendingKeys == {liveOrders[k].returned : k \in 1..Len(liveOrders)} \ {NoId}

(***************************************************************************)
(* Supervisor, observations kept for the properties                        *)
(***************************************************************************)
VARIABLES
  leverageFailed,  \* history: the symbols for which api.setLeverage has thrown
  lastGate         \* history: the outcome of the last trading-window test ("none" before)

supHist == <<leverageFailed, lastGate>>

SupHistInit ==
  /\ leverageFailed = {}
  /\ lastGate = "none"

\* the Trader class _scanAndLaunch instantiates for a candidate
LaunchedStrategy(symbol) == "GRID"

\* the variables of the other components
otherThanTrader == <<ledgerVars, envVars, supVars, accountVars, adapterVars, supHist>>

TraderStart == Start /\ UNCHANGED otherThanTrader
TraderStartFail == StartFail /\ UNCHANGED otherThanTrader
TraderPriceTick ==
  \E price \in PriceLevels(strategy) : PriceTick(price) /\ UNCHANGED otherThanTrader
TraderMarkPrice ==
  \E price \in PriceLevels(strategy) : MarkPrice(price) /\ UNCHANGED otherThanTrader
TraderExchangeFill ==
  \E id \in SeqRange(openOrders) : ExchangeFill(id) /\ UNCHANGED otherThanTrader
TraderExchangeCancel ==
  \E id \in SeqRange(openOrders) : ExchangeCancel(id) /\ UNCHANGED otherThanTrader
TraderResume ==
  \E t \in BagToSet(tasks) : \E r \in Outcomes(t) : Resume(t, r) /\ UNCHANGED otherThanTrader
TraderExternalDestroy == ExternalDestroy /\ UNCHANGED otherThanTrader

otherThanSup == <<ledgerVars, traderVars, accountVars, adapterVars>>
otherThanSupHist == <<otherThanSup, supHist>>
otherThanLedger == <<envVars, supVars, traderVars, accountVars, adapterVars, supHist>>
otherThanAccount == <<envVars, supVars, traderVars, adapterVars, supHist>>
otherThanAdapter == <<ledgerVars, envVars, supVars, traderVars, accountVars, supHist>>

SupScanBegin == \E t \in 1..MaxTicks : ScanBegin(t) /\ UNCHANGED <<envVars, otherThanSupHist>>
SupScanReturn ==
  \E t \in 1..MaxTicks, cands \in ScanResults, hour \in Hours :
     ScanReturn(t, cands, hour) /\ UNCHANGED <<envVars, otherThanSupHist>>
SupLeverageReturn ==
  \E t \in 1..MaxTicks, ok \in BOOLEAN : LeverageReturn(t, ok) /\ UNCHANGED <<envVars, otherThanSupHist>>
SupStartReturnOk == \E t \in 1..MaxTicks : StartReturnOk(t) /\ UNCHANGED <<envVars, otherThanSupHist>>
SupStartReturnFail == \E t \in 1..MaxTicks : StartReturnFail(t) /\ UNCHANGED <<envVars, otherThanSupHist>>
SupDestroyFailedReturn ==
  \E t \in 1..MaxTicks, completed \in BOOLEAN :
     DestroyFailedReturn(t, completed) /\ UNCHANGED <<envVars, otherThanSupHist>>
SupRefreshReturn == \E t \in 1..MaxTicks : RefreshReturn(t) /\ UNCHANGED <<envVars, otherThanSupHist>>
SupTraderTerminates ==
  \E symbol \in Symbols, pnl \in TerminalPnl :
     TraderTerminates(symbol, pnl) /\ UNCHANGED <<envVars, otherThanSupHist>>
SupClockAdvance ==
  ClockAdvance /\ UNCHANGED <<mode, enableTradingWindow, maxTraders, supVars, otherThanSupHist>>

vars == <<ledgerVars, envVars, supVars, traderVars, accountVars, adapterVars, supHist>>

\* the initial state of the exchange adapter
AdapterInit == StreamInit /\ SimInit /\ IdsInit /\ WalletInit

EnvInit ==
  /\ mode \in {"test", "live"}
  /\ enableTradingWindow \in BOOLEAN
  /\ maxTraders = MaxTraders
  /\ now = 0

SupSpecInit ==
  EnvInit /\ SupInit /\ LedgerInit /\ TraderInit /\ strategy = "GRID" /\ AccountInit
  /\ AdapterInit
  /\ SupHistInit

SupNext ==
  \/ SupScanBegin
  \/ SupScanReturn
  \/ SupLeverageReturn
  \/ SupStartReturnOk
  \/ SupStartReturnFail
  \/ SupDestroyFailedReturn
  \/ SupRefreshReturn
  \/ SupTraderTerminates
  \/ SupClockAdvance

SpecSup == SupSpecInit /\ [][SupNext]_vars

(***************************************************************************)
(* Supervisor with scan ticks that do not overlap (a tick ends within      *)
(* scannerIntervalMs) and room for more than one Trader                    *)
(***************************************************************************)
\* largest config.maxTraders when ticks do not overlap
SeqMaxTraders == 2

SeqScanBegin == ScanBegin(1) /\ UNCHANGED <<envVars, otherThanSupHist>>

SeqScanReturn ==
  \E cands \in ScanResults, hour \in Hours :
     /\ ScanReturn(1, cands, hour)
     /\ lastGate' = IF enableTradingWindow /\ ~_isWithinTradingHours(hour)
                    THEN "closed" ELSE "open"
     /\ UNCHANGED <<leverageFailed, envVars, otherThanSup>>

SeqLeverageReturn ==
  \E ok \in BOOLEAN :
     /\ LeverageReturn(1, ok)
     /\ leverageFailed' = IF ok THEN leverageFailed
                          ELSE leverageFailed \cup {ticks[1].cands[ticks[1].idx]}
     /\ UNCHANGED <<lastGate, envVars, otherThanSup>>

SupSeqInit ==
  /\ mode \in {"test", "live"}
  /\ enableTradingWindow \in BOOLEAN
  /\ maxTraders \in 1..SeqMaxTraders
  /\ now = 0
  /\ SupInit /\ LedgerInit /\ TraderInit /\ strategy = "GRID" /\ AccountInit
  /\ AdapterInit
  /\ SupHistInit

SupSeqNext ==
  \/ SeqScanBegin
  \/ SeqScanReturn
  \/ SeqLeverageReturn
  \/ SupStartReturnOk
  \/ SupStartReturnFail
  \/ SupDestroyFailedReturn
  \/ SupRefreshReturn
  \/ SupTraderTerminates
  \/ SupClockAdvance

SpecSupSeq == SupSeqInit /\ [][SupSeqNext]_vars

(***************************************************************************)
(* Supervisor properties                                                   *)
(***************************************************************************)
\* C1: in every reachable state the traders map holds at most maxTraders
\* entries, also when scan ticks overlap.
C1_TradersWithinMax == Cardinality(traders) <= maxTraders

\* C6: when a registered Trader terminates with realised P&L < 0 the Supervisor
\* increments consecutiveLosses and, from 2 losses on, sets lossCooldownUntil to
\* now + 15 min at 2 losses, + 30 min at 3, + 60 min at 4 or more; with
\* P&L >= 0 it resets consecutiveLosses to 0 and clears the cooldown.
C6_LossCooldown ==
  [][\A symbol \in Symbols, pnl \in TerminalPnl :
       (symbol \in traders /\ TraderTerminates(symbol, pnl)) =>
          IF pnl.v < 0
          THEN /\ consecutiveLosses' = consecutiveLosses + 1
               /\ (consecutiveLosses' < 2) => (lossCooldownUntil' = lossCooldownUntil)
               /\ (consecutiveLosses' = 2) => (lossCooldownUntil' = now + 15)
               /\ (consecutiveLosses' = 3) => (lossCooldownUntil' = now + 30)
               /\ (consecutiveLosses' >= 4) => (lossCooldownUntil' = now + 60)
          ELSE /\ consecutiveLosses' = 0
               /\ lossCooldownUntil' = 0]_vars

\* C6 witness: a third consecutive loss has just set a 30 minute cooldown.
C6_Witness == consecutiveLosses = 3 /\ lossCooldownUntil = now + 30

\* C7: while a loss cooldown is running no Trader is added to the traders map,
\* in every interleaving of scan ticks and Trader terminations.
C7_NoLaunchDuringCooldown ==
  [][(lossCooldownUntil > now) => (traders' \subseteq traders)]_vars

\* C8: the per-symbol start-failure back-off escalates: the cooldown set by the
\* n-th start failure of a symbol is 5 min for n = 1, 15 min for n = 2 and
\* 60 min for n >= 3.
C8_BackoffEscalates ==
  [][\A s \in Symbols :
       (startFailures'[s] = startFailures[s] + 1) =>
          failedSymbols'[s].until =
             now + (IF startFailures'[s] >= 3 THEN 60
                    ELSE IF startFailures'[s] = 2 THEN 15 ELSE 5)]_vars

\* per-strategy slots: floor(maxTraders / 2) Volatility slots, the rest Grid
VolatilitySlots == maxTraders \div 2
ExpansionSlots == maxTraders - VolatilitySlots
\* the registered Traders of one strategy
ActiveOf(strat, tr) == Cardinality({s \in tr : LaunchedStrategy(s) = strat})

\* C13: a launched candidate becomes a Volatility Trader whenever a Volatility
\* slot is free and a Grid Trader otherwise, and the number of active Traders
\* of each strategy never exceeds its slot count.
C13_SlotAllocation ==
  [][/\ \A s \in traders' \ traders :
          LaunchedStrategy(s) = IF ActiveOf("VOLATILITY", traders) < VolatilitySlots
                                THEN "VOLATILITY" ELSE "GRID"
     /\ ActiveOf("VOLATILITY", traders') <= VolatilitySlots
     /\ ActiveOf("GRID", traders') <= ExpansionSlots]_vars

\* C14: setLeverage is only sent for a symbol that is not in leverageSet and
\* for which it has never failed, and no Trader is launched on a symbol for
\* which setLeverage has failed.
C14_LeverageOnceAndBlacklist ==
  [][/\ \A t \in 1..MaxTicks :
          (ticks'[t].pc = "setLeverage" /\ ticks'[t] # ticks[t]) =>
             ticks'[t].cands[ticks'[t].idx] \notin (leverageSet \cup leverageFailed)
     /\ (traders' \ traders) \cap leverageFailed = {}]_vars

\* C15: with enableTradingWindow set and the UTC hour outside [3, 9) the tick
\* ends after the scan: it launches nothing and leaves traders, failedSymbols
\* and the stream subscription unchanged; otherwise it goes on to the
\* candidate loop.
C15_TradingWindowGate ==
  [][\A t \in 1..MaxTicks, cands \in ScanResults, hour \in Hours :
       ScanReturn(t, cands, hour) =>
          IF enableTradingWindow /\ ~(hour >= 3 /\ hour < 9)
          THEN /\ UNCHANGED <<traders, failedSymbols, streamSymbols, running, leverageSet>>
               /\ ticks'[t] = IdleTick
          ELSE ticks'[t].pc \in {"setLeverage", "start", "refresh"}]_vars

\* C15 witness: a tick has just been stopped by the closed trading window
\* while a Trader launched in an earlier window is still registered.
C15_Witness ==
  /\ enableTradingWindow /\ lastGate = "closed"
  /\ traders # {}
  /\ ticks[1] = IdleTick

\* C20: when trader.start() rejects, the symbol leaves the traders map and gets
\* a cooldown in failedSymbols, and neither that step nor the destroy of the
\* failed Trader changes consecutiveLosses or lossCooldownUntil.
C20_StartFailure ==
  [][\A t \in 1..MaxTicks :
       LET symbol == ticks[t].cands[ticks[t].idx]
       IN /\ (ticks[t].pc = "start" /\ ticks'[t].pc = "destroyFailed") =>
                /\ symbol \notin traders'
                /\ failedSymbols'[symbol].count > 0
                /\ failedSymbols'[symbol].until > now
                /\ UNCHANGED <<consecutiveLosses, lossCooldownUntil>>
          /\ (ticks[t].pc = "destroyFailed" /\ ticks'[t].pc # "destroyFailed") =>
                UNCHANGED <<consecutiveLosses, lossCooldownUntil>>]_vars

(***************************************************************************)
(* Ledger specification                                                    *)
(***************************************************************************)
LedgerRecordTrade ==
  /\ Len(tradeLog) < MaxTrades
  /\ \E pnl \in PnlInputs, fees \in FeeInputs : recordTrade(pnl, fees)
  /\ UNCHANGED otherThanLedger

LedgerSetEquity ==
  /\ Len(equityHistory) < MaxSamples
  /\ \E e \in EquityInputs : setEquity(e)
  /\ UNCHANGED otherThanLedger

LedgerSetBalance ==
  /\ \E b \in {0, MaxEquity} : b # balance /\ setBalance(b)
  /\ UNCHANGED otherThanLedger

LedgerSpecInit ==
  /\ LedgerInit
  /\ mode = "test" /\ enableTradingWindow = FALSE /\ maxTraders = MaxTraders /\ now = 0
  /\ SupInit
  /\ TraderInit /\ strategy = "GRID"
  /\ AccountInit
  /\ AdapterInit
  /\ SupHistInit

LedgerNext == LedgerRecordTrade \/ LedgerSetEquity \/ LedgerSetBalance

SpecLedger == LedgerSpecInit /\ [][LedgerNext]_vars

RECURSIVE SeqSum(_)
SeqSum(q) == IF q = <<>> THEN 0 ELSE Head(q) + SeqSum(Tail(q))

RecordedPnl == [i \in 1..Len(tradeLog) |-> tradeLog[i][1]]
RecordedFees == [i \in 1..Len(tradeLog) |-> tradeLog[i][2]]

SetMax(S) == CHOOSE m \in S : \A x \in S : x <= m

\* C9: after any sequence of recordTrade calls netProfit is the sum of the
\* recorded pnl values minus the sum of the recorded fees, which is also
\* grossProfit - grossLoss - feesPaid; a pnl >= 0 counts as a win, a pnl < 0 as
\* a loss, and totalTrades = wins + losses.
C9_NetProfit ==
  /\ performance.netProfit = SeqSum(RecordedPnl) - SeqSum(RecordedFees)
  /\ performance.netProfit =
       performance.grossProfit - performance.grossLoss - performance.feesPaid
  /\ performance.wins = Cardinality({i \in 1..Len(tradeLog) : tradeLog[i][1] >= 0})
  /\ performance.losses = Cardinality({i \in 1..Len(tradeLog) : tradeLog[i][1] < 0})
  /\ performance.totalTrades = performance.wins + performance.losses
  /\ performance.totalTrades = Len(tradeLog)

\* C9 witness: a loss, a win and a paid fee have all been recorded.
C9_Witness ==
  /\ \E i \in 1..Len(tradeLog) : tradeLog[i][1] < 0
  /\ \E i \in 1..Len(tradeLog) : tradeLog[i][1] > 0
  /\ \E i \in 1..Len(tradeLog) : tradeLog[i][2] > 0
  /\ performance.losses >= 1 /\ performance.wins >= 1

\* C10: over any sequence of setEquity calls maxDrawdown never decreases,
\* peakEquity never decreases, and after each call peakEquity is the maximum
\* of the starting balance and every equity value set so far.
C10_DrawdownAndPeakMonotone ==
  [][/\ peakEquity' >= peakEquity
     /\ FracGE(performance'.maxDrawdown, performance.maxDrawdown)
     /\ peakEquity' = SetMax({StartingBalance} \cup
                             {equityLog'[i] : i \in 1..Len(equityLog')})]_vars

\* C10 witness: equity rose above the starting balance, fell (a drawdown was
\* recorded) and then recovered part of the fall: the last sample is below the
\* peak, its own drawdown is smaller than the recorded maximum.
C10_Witness ==
  /\ Len(equityLog) >= 3
  /\ peakEquity > StartingBalance
  /\ ~IsNaN(equity) /\ equity.v < peakEquity
  /\ FracGT(performance.maxDrawdown, [num |-> peakEquity - equity.v, den |-> peakEquity])

(***************************************************************************)
(* Account specification: the Traders publish snapshots and record trades  *)
(* while the Supervisor's accountSync timer refreshes balance and equity   *)
(***************************************************************************)
\* balances api.getBalance may report (live mode)
ApiBalances == {StartingBalance, StartingBalance + 1}
\* unrealised P&L values a snapshot may carry
UnrealizedInputs == (0 - MaxUnrealized)..MaxUnrealized
\* realised trades the Traders record between two syncs
AccountTradeInputs == {Num(0 - 1), Num(1)}

AccountUpsert ==
  /\ \E id \in Symbols, u \in UnrealizedInputs :
        /\ (~activeTraders[id].present \/ activeTraders[id].unrealizedPnl # u)
        /\ upsertTrader(id, u)
  /\ UNCHANGED <<ledgerVars, otherThanAccount>>

AccountRemove ==
  /\ \E id \in SnapshotIds(activeTraders) : removeTrader(id)
  /\ UNCHANGED <<ledgerVars, otherThanAccount>>

AccountRecordTrade ==
  /\ Len(tradeLog) < MaxTrades - 1
  /\ \E pnl \in AccountTradeInputs : recordTrade(pnl, Num(0))
  /\ UNCHANGED <<accountVars, otherThanAccount>>

AccountSyncBegin ==
  /\ Len(equityHistory) < MaxSamples - 1
  /\ SyncBegin
  /\ UNCHANGED <<ledgerVars, otherThanAccount>>

AccountSyncReturn ==
  /\ \E b \in ApiBalances : _syncAccount(b)
  /\ UNCHANGED otherThanAccount

AccountSpecInit ==
  /\ LedgerInit
  /\ AccountInit
  /\ mode \in {"test", "live"} /\ enableTradingWindow = FALSE /\ maxTraders = MaxTraders
  /\ now = 0
  /\ SupInit
  /\ TraderInit /\ strategy = "GRID"
  /\ AdapterInit
  /\ SupHistInit

AccountNext ==
  \/ AccountUpsert
  \/ AccountRemove
  \/ AccountRecordTrade
  \/ AccountSyncBegin
  \/ AccountSyncReturn

SpecAccount == AccountSpecInit /\ [][AccountNext]_vars

\* C11: in every reachable state equity = balance + the sum of unrealizedPnl
\* over the active trader snapshots, also between two accountSync ticks.
C11_EquityIsBalancePlusUnrealized ==
  /\ ~IsNaN(equity)
  /\ equity.v = balance + SumUnrealized(activeTraders, SnapshotIds(activeTraders))

(***************************************************************************)
(* Market-stream specification                                             *)
(***************************************************************************)
StreamUpdateSymbols ==
  /\ \E list \in SymbolLists : updateSymbols(list)
  /\ UNCHANGED <<otherThanAdapter, simVars, idVars, walletVars>>

StreamWsOpen ==
  /\ \E id \in 1..Len(sockets) : WsOpen(id)
  /\ UNCHANGED <<otherThanAdapter, simVars, idVars, walletVars>>

StreamWsMessage ==
  /\ \E id \in 1..Len(sockets) : WsMessage(id)
  /\ UNCHANGED <<otherThanAdapter, simVars, idVars, walletVars>>

StreamWatchdogFires ==
  /\ WatchdogFires
  /\ UNCHANGED <<otherThanAdapter, simVars, idVars, walletVars>>

StreamWsClose ==
  /\ \E id \in 1..Len(sockets) : WsClose(id)
  /\ UNCHANGED <<otherThanAdapter, simVars, idVars, walletVars>>

StreamWsError ==
  /\ \E id \in 1..Len(sockets) : WsError(id)
  /\ UNCHANGED <<otherThanAdapter, simVars, idVars, walletVars>>

StreamReconnectFires ==
  /\ ReconnectFires
  /\ UNCHANGED <<otherThanAdapter, simVars, idVars, walletVars>>

StreamSpecInit ==
  /\ AdapterInit
  /\ SupHistInit
  /\ LedgerInit
  /\ AccountInit
  /\ mode \in {"test", "live"} /\ enableTradingWindow = FALSE /\ maxTraders = MaxTraders
  /\ now = 0
  /\ SupInit
  /\ TraderInit /\ strategy = "GRID"

StreamNext ==
  \/ StreamUpdateSymbols
  \/ StreamWsOpen
  \/ StreamWsMessage
  \/ StreamWatchdogFires
  \/ StreamWsClose
  \/ StreamWsError
  \/ StreamReconnectFires

SpecStream == StreamSpecInit /\ [][StreamNext]_vars

\* C12: updateSymbols(S) with S equal, as a set, to the current membership
\* leaves the membership unchanged, terminates no socket and opens none; with
\* a different set the membership becomes exactly that set.
C12_UpdateSymbols ==
  [][\A list \in SymbolLists :
       updateSymbols(list) =>
          IF NewSet(list) = symbolStreams
          THEN UNCHANGED <<symbolStreams, ws, sockets>>
          ELSE symbolStreams' = NewSet(list)]_vars

\* C12 witness: a call with the current two-symbol membership has just
\* returned; the socket opened for that membership is still the current one.
C12_Witness ==
  /\ lastUpdate = "same"
  /\ symbolStreams = Symbols
  /\ ws # 0 /\ sockets[ws] = "open"

(***************************************************************************)
(* Order-simulator specification: orders are placed and cancelled while    *)
(* the market feed ticks                                                   *)
(***************************************************************************)
Sides == {"BUY", "SELL"}

SimPlaceLimit ==
  \E symbol \in Symbols, side \in Sides, price \in SimPrices, quantity \in SimQuantities :
     placeLimitOrder(symbol, side, price, quantity) /\ UNCHANGED <<otherThanAdapter, streamVars, idVars>>

SimPlaceStop ==
  \E symbol \in Symbols, side \in Sides, stopPrice \in SimPrices, price \in StopLimitPrices,
     quantity \in SimQuantities :
     placeStopLimitOrder(symbol, side, stopPrice, price, quantity)
       /\ UNCHANGED <<otherThanAdapter, streamVars, idVars>>

SimCancel ==
  \E i \in 1..Len(testOrders) :
     cancelTestOrder(testOrders[i].orderId) /\ UNCHANGED <<otherThanAdapter, streamVars, idVars>>

SimTick ==
  \E symbol \in Symbols, markPrice \in SimPrices :
     SimulateFills(symbol, markPrice) /\ UNCHANGED <<otherThanAdapter, streamVars, idVars>>

SimSpecInit ==
  /\ LedgerInit
  /\ mode = "test"
  /\ enableTradingWindow = FALSE
  /\ maxTraders = MaxTraders
  /\ now = 0
  /\ SupInit
  /\ strategy = "GRID"
  /\ TraderInit
  /\ AccountInit
  /\ AdapterInit
  /\ SupHistInit

SimNext == SimPlaceLimit \/ SimPlaceStop \/ SimCancel \/ SimTick

SpecSim == SimSpecInit /\ [][SimNext]_vars

\* the price has reached the stop of a stop order
Crossed(order, price) ==
  IF order.side = "BUY" THEN price >= order.stopPrice ELSE price <= order.stopPrice

FilledOrders == {simFills[i].order : i \in 1..Len(simFills)}

\* a BUY stop order at 99 without a limit price
BuyStop99(o) ==
  o.type = "STOP_MARKET" /\ o.side = "BUY" /\ o.stopPrice = 99 /\ o.price = NoPrice

\* C18 as stated: a BUY stop order at 99 does not fill at a tick at 98; at a
\* following tick at 100 it fills at 99 marked as already passed; and a filled
\* stop order is marked as already passed exactly when the previous tick
\* recorded in lastSimPrice had crossed its stop.
C18_StopAlreadyCrossed_Stated ==
  [][\A symbol \in Symbols, markPrice \in SimPrices :
        SimulateFills(symbol, markPrice) =>
           /\ \A i \in 1..Len(testOrders) :
                 (BuyStop99(testOrders[i]) /\ testOrders[i].symbol = symbol) =>
                    /\ markPrice = 98 => testOrders[i] \notin FilledOrders'
                    /\ (lastSimPrice[symbol] = 98 /\ markPrice = 100) =>
                          \E k \in 1..Len(simFills') :
                             /\ simFills'[k].order = testOrders[i]
                             /\ simFills'[k].price = 99
                             /\ simFills'[k].alreadyPassed
           /\ \A k \in 1..Len(simFills') :
                 simFills'[k].order.type # "LIMIT" =>
                    (simFills'[k].alreadyPassed <=>
                        (/\ lastSimPrice[symbol] # NoPrice
                         /\ Crossed(simFills'[k].order, lastSimPrice[symbol])))]_vars

\* C18, amended: a BUY stop order at 99 does not fill at a tick at 98; at a
\* following tick at 100 it fills at 99 and is not marked as already passed
\* (the tick at 98 had not reached the stop); a filled stop order is marked as
\* already passed exactly when no tick was recorded before for its symbol or
\* the previous tick recorded in lastSimPrice had crossed its stop, and a
\* limit order is never marked.
C18_StopAlreadyCrossed ==
  [][\A symbol \in Symbols, markPrice \in SimPrices :
        SimulateFills(symbol, markPrice) =>
           /\ \A i \in 1..Len(testOrders) :
                 (BuyStop99(testOrders[i]) /\ testOrders[i].symbol = symbol) =>
                    /\ markPrice = 98 => testOrders[i] \in SeqRange(testOrders')
                    /\ (lastSimPrice[symbol] = 98 /\ markPrice = 100) =>
                          /\ testOrders[i] \notin SeqRange(testOrders')
                          /\ \E k \in 1..Len(simFills') :
                                /\ simFills'[k].order = testOrders[i]
                                /\ simFills'[k].price = 99
                                /\ ~simFills'[k].alreadyPassed
           /\ \A k \in 1..Len(simFills') :
                 simFills'[k].alreadyPassed <=>
                    /\ simFills'[k].order.type # "LIMIT"
                    /\ \/ lastSimPrice[symbol] = NoPrice
                       \/ Crossed(simFills'[k].order, lastSimPrice[symbol])]_vars

\* C18 witness: a BUY stop order at 99 that rested through a tick at 98 was
\* filled at 99 by the tick at 100, not marked; and a stop order placed after
\* a tick that had crossed its stop was filled marked as already passed.
C18_Witness ==
  /\ simPrevPrice = 98 /\ simMarkPrice = 100
  /\ \E k \in 1..Len(simFills) :
        /\ BuyStop99(simFills[k].order)
        /\ simFills[k].price = 99
        /\ ~simFills[k].alreadyPassed
  /\ \E k \in 1..Len(simFills) : simFills[k].alreadyPassed

(***************************************************************************)
(* Order-id specification: live placements and the user-data messages the  *)
(* exchange sends about them, before or after the placement has returned   *)
(***************************************************************************)
\* the forms in which a message may carry the ids of order k
ClientIdForms(k) ==
  IF liveOrders[k].kind = "algo" THEN {liveOrders[k].clientAlgoId, NoId, IdOther(k)}
  ELSE {NoId, IdOther(k)}

AlgoIdForms(k) ==
  IF liveOrders[k].kind = "algo"
  THEN {liveOrders[k].algoId, StringOf(liveOrders[k].algoId), NoId}
  ELSE {NoId}

\* an algo order that has triggered is reported with the number of the order
\* it became
NumericIdForms(k) ==
  IF liveOrders[k].kind = "algo" THEN {NoId} \cup {IdNumber(n) : n \in ExchangeNumbers}
  ELSE {liveOrders[k].numeric, StringOf(liveOrders[k].numeric)}

OrderStatuses == {"NEW", "FILLED", "EXPIRED"}

IdsPlaceLimit ==
  \E n \in ExchangeNumbers : LivePlaceLimit(n) /\ UNCHANGED <<otherThanAdapter, streamVars, simVars, walletVars>>

IdsPlaceStopSend ==
  \E a \in ExchangeNumbers :
     LivePlaceStopSend(a) /\ UNCHANGED <<otherThanAdapter, streamVars, simVars, walletVars>>

IdsPlaceStopReturn ==
  \E k \in 1..Len(liveOrders), echoed \in BOOLEAN :
     LivePlaceStopReturn(k, echoed) /\ UNCHANGED <<otherThanAdapter, streamVars, simVars, walletVars>>

IdsUserDataMessage ==
  \E k \in 1..Len(liveOrders) :
     \E c \in ClientIdForms(k), algoId \in AlgoIdForms(k), i \in NumericIdForms(k),
        status \in OrderStatuses :
        /\ <<c, algoId, i>> # <<NoId, NoId, NoId>>
        /\ UserDataMessage(k, c, algoId, i, status)
        /\ UNCHANGED <<otherThanAdapter, streamVars, simVars, walletVars>>

IdsSpecInit ==
  /\ LedgerInit
  /\ mode = "live"
  /\ enableTradingWindow = FALSE
  /\ maxTraders = MaxTraders
  /\ now = 0
  /\ SupInit
  /\ strategy = "GRID"
  /\ TraderInit
  /\ AccountInit
  /\ AdapterInit
  /\ SupHistInit

IdsNext == IdsPlaceLimit \/ IdsPlaceStopSend \/ IdsPlaceStopReturn \/ IdsUserDataMessage

SpecIds == IdsSpecInit /\ [][IdsNext]_vars

\* the last message was about an algo order and carried its BOT- client id
\* or its algoId
IdentifiesAlgoOrder ==
  /\ lastEmit.order # 0
  /\ liveOrders[lastEmit.order].kind = "algo"
  /\ \/ lastEmit.c = liveOrders[lastEmit.order].clientAlgoId
     \/ lastEmit.algoId # NoId

\* C19: an event emitted for an algo order after its placement returned,
\* from a message carrying the BOT- client id, only the algoId, or both, has
\* the orderId the placement returned; an event emitted for a plain order
\* has the numeric order id (the orderId its placement returned); in both
\* cases _findPending finds the entry stored under the returned id; and a
\* BOT- client id goes before a mapped algoId, which goes before the
\* numeric id.
C19_OrderIdRoundTrip ==
  (lastEmit.emitted /\ lastEmit.placed) =>
     LET o == liveOrders[lastEmit.order]
     IN /\ IdentifiesAlgoOrder =>
              /\ lastEmit.orderId = o.returned
              /\ _findPending(PendingKeys, lastEmit) = o.returned
        /\ o.kind = "plain" =>
              /\ NumberOf(lastEmit.orderId) = o.numeric
              /\ _findPending(PendingKeys, lastEmit) = o.returned
        /\ lastEmit.c[1] = "BOT-" => lastEmit.orderId = lastEmit.c
        /\ (lastEmit.c[1] # "BOT-" /\ MappedClientId(lastEmit.algoId) # NoId) =>
              lastEmit.orderId = MappedClientId(lastEmit.algoId)

\* C19 witness: an event emitted for a returned algo order from a message
\* that carried only the algoId, next to the number of the triggered order,
\* has the BOT- id the placement returned, with a plain order of that very
\* number pending too.
C19_Witness ==
  /\ lastEmit.emitted /\ lastEmit.placed /\ IdentifiesAlgoOrder
  /\ lastEmit.c[1] # "BOT-" /\ lastEmit.i # NoId
  /\ lastEmit.orderId = liveOrders[lastEmit.order].returned
  /\ lastEmit.i \in PendingKeys

(***************************************************************************)
(* Trader specification                                                    *)
(***************************************************************************)
TraderSpecInit ==
  /\ TraderInit
  /\ strategy \in {"GRID", "VOLATILITY"}
  /\ mode \in {"test", "live"}
  /\ enableTradingWindow = FALSE
  /\ maxTraders = MaxTraders
  /\ now = 0
  /\ SupInit
  /\ LedgerInit
  /\ AccountInit
  /\ AdapterInit
  /\ SupHistInit

TraderNext ==
  \/ TraderStart
  \/ TraderStartFail
  \/ TraderPriceTick
  \/ TraderMarkPrice
  \/ TraderExchangeFill
  \/ TraderResume
  \/ TraderExternalDestroy

SpecTrader == TraderSpecInit /\ [][TraderNext]_vars

(***************************************************************************)
(* Trader on the live exchange, where resting orders may also be rejected  *)
(* or expire (orderCancelled events)                                       *)
(***************************************************************************)
\* the mark prices that decide a comparison in live mode: the stop-loss
\* levels for Grid (_placeExitOrders), either side of base for Volatility
LivePriceLevels(strat) ==
  {BasePrice} \cup (IF strat = "GRID" THEN {StopLossPrice(strat, d) : d \in Dirs}
                    ELSE {TakeProfitPrice(strat, d) : d \in Dirs})

LiveMarkPrice ==
  \E price \in LivePriceLevels(strategy) : MarkPrice(price) /\ UNCHANGED otherThanTrader

TraderStartSlRejected ==
  \E d \in Dirs : StartSlRejected(d) /\ UNCHANGED otherThanTrader

\* the Supervisor or the shutdown hook destroys the Trader, once
LiveExternalDestroy ==
  /\ Len(destroyResult) = 0
  /\ ExternalDestroy
  /\ UNCHANGED otherThanTrader

TraderLiveInit ==
  /\ TraderInit
  /\ strategy \in {"GRID", "VOLATILITY"}
  /\ mode = "live"
  /\ enableTradingWindow = FALSE
  /\ maxTraders = MaxTraders
  /\ now = 0
  /\ SupInit
  /\ LedgerInit
  /\ AccountInit
  /\ AdapterInit
  /\ SupHistInit

TraderLiveNext ==
  \/ TraderStart
  \/ TraderStartFail
  \/ TraderStartSlRejected
  \/ LiveMarkPrice
  \/ TraderExchangeFill
  \/ TraderExchangeCancel
  \/ TraderResume
  \/ LiveExternalDestroy

SpecTraderLive == TraderLiveInit /\ [][TraderLiveNext]_vars

(***************************************************************************)
(* Trader properties                                                       *)
(***************************************************************************)
TaskSet == BagToSet(tasks)

\* the Trader's orders of the given kinds resting on the exchange for position d
LiveOrders(d, kinds) == {id \in SeqRange(openOrders) : id[1] = d /\ id[2] \in kinds}

ExitsBeingPlaced(d) ==
  \E t \in TaskSet : t.pos = d /\ t.pc \in {"exits.placeTp", "exits.placeSl", "replace.cancelTp",
                                            "replace.cancelSl", "replace.placeTp",
                                            "replace.placeSl"}

Closing(d) ==
  positions[d].isClosing \/ \E t \in TaskSet : t.pos = d /\ t.pc = "close.market"

\* C2: every position of an active Trader has exactly one live TP and one live
\* SL order, or its exit orders are being placed, or it is closing.
C2_PositionProtected ==
  active => \A d \in Dirs :
     positions[d].open =>
        \/ /\ Cardinality(LiveOrders(d, {"tp", "tpBase"})) = 1
           /\ Cardinality(LiveOrders(d, {"sl", "sl2"})) = 1
        \/ ExitsBeingPlaced(d)
        \/ Closing(d)

Profitable(d, price) == IF d = "LONG" THEN price > basePrice ELSE price < basePrice

\* C3: Volatility, simulator mode: after the first leg took profit, no market
\* close of the surviving leg (reason base-close) is started while the last
\* observed price is still on the profitable side of basePrice for the leg
\* that took profit; the survivor is only closed once the price is back at base.
C3_SurvivorKeptUntilBase ==
  [][\A t \in BagToSet(tasks') :
        (/\ strategy = "VOLATILITY" /\ mode = "test"
         /\ ~BagIn(t, tasks)
         /\ t.pc = "close.market" /\ t.reason = "base-close"
         /\ tpHitSide' # "null")
        => ~Profitable(tpHitSide', lastPrice')]_vars

DestroyInFlight ==
  \E t \in TaskSet : t.ext > 0 \/ t.pc \in {"destroy.cancelEntry", "destroy.cancelExit",
                                            "destroy.cancelAll"}

NoErrorSurfaced == ~unhandled /\ \A k \in 1..Len(destroyResult) : destroyResult[k] # "error"

\* C5: for both strategies a destroy call made when the Trader is no longer
\* active (the first call has finished or is still awaiting cancellations)
\* returns without error and changes nothing; the handlers are deregistered at
\* most once, removeTrader and onDestroy run at most once, and exactly once
\* when the destroy that passed the guard ran to its end.
C5_DestroyIdempotent ==
  [][/\ offCalls' <= 1 /\ removeTraderCalls' <= 1 /\ onDestroyCalls' <= 1
     /\ (offCalls' = 1 /\ ~DestroyInFlight' /\ NoErrorSurfaced') =>
           (removeTraderCalls' = 1 /\ onDestroyCalls' = 1)
     /\ (Len(destroyResult') > Len(destroyResult) /\ ~active) =>
           /\ destroyResult' = Append(destroyResult, "ok")
           /\ UNCHANGED <<active, handlersOn, lastPrice, positions, posOrder, pendingEntries,
                          pendingExits, tpHitSide, tradeHistory, openOrders, tasks, offCalls,
                          removeTraderCalls, onDestroyCalls, unhandled>>]_vars

\* C5 witness: the second destroy call returned while the first one was still
\* awaiting its cancellations.
C5_Witness ==
  /\ Len(destroyResult) = 2
  /\ destroyResult[1] = "pending" /\ destroyResult[2] = "ok"
  /\ offCalls = 1 /\ removeTraderCalls = 0

\* the calls that a step has put in flight
StartedTasks == {t \in BagToSet(tasks') : CopiesIn(t, tasks') > CopiesIn(t, tasks)}

FinalizePcs == {"finalize.cancelTp", "finalize.cancelSl", "finalize.summary"}

\* C16: an orderCancelled event delivered to the Trader that matches a pending
\* exit with reason stop-loss whose position exists and is not closing starts
\* exactly one market close of that position with reason sl-rejected; a
\* cancelled TP exit, or an exit whose position is closing or gone, starts no
\* call at all.  When that market close returns and the position is still not
\* closing, _finalizeClose runs with reason sl-rejected, and the trade it
\* records carries that reason.
C16_SlRejectedMarketClose ==
  [][/\ \A id \in SeqRange(openOrders) :
          (ExchangeCancel(id) /\ active /\ handlersOn) =>
             LET k == FirstIn(ExitIdSeq(pendingExits), {id})
                 d == pendingExits[k].positionId
             IN IF /\ k # 0
                   /\ pendingExits[k].reason = "stop-loss"
                   /\ positions[d].open /\ ~positions[d].isClosing
                THEN /\ StartedTasks = {[NewTask EXCEPT !.pc = "close.market", !.pos = d,
                                                        !.reason = "sl-rejected"]}
                     /\ id \notin ExitIds(pendingExits')
                ELSE tasks' = tasks
     /\ \A t \in BagToSet(tasks) :
          /\ (/\ t.pc = "close.market" /\ t.reason = "sl-rejected"
              /\ Resume(t, "ok") /\ ~positions[t.pos].isClosing) =>
                 /\ positions'[t.pos].isClosing
                 /\ \E u \in StartedTasks : /\ u.pos = t.pos /\ u.reason = "sl-rejected"
                                            /\ u.pc \in FinalizePcs
          /\ (/\ t.pc = "finalize.summary" /\ t.reason = "sl-rejected"
              /\ Resume(t, "ok")) =>
                 /\ ~positions'[t.pos].open
                 /\ tradeHistory' = Append(tradeHistory, [direction |-> t.pos,
                                                          reason |-> "sl-rejected"])]_vars

\* C16 witness: a position whose stop-loss order was cancelled by the exchange
\* has been closed at market and recorded with reason sl-rejected.
C16_Witness ==
  \E i \in 1..Len(tradeHistory) : tradeHistory[i].reason = "sl-rejected"

\* position d has no stop-loss order recorded, on the position or as a pending exit
NoSlRecorded(d) ==
  /\ positions'[d].slOrderId = NullId
  /\ \A i \in 1..Len(pendingExits') :
        ~(pendingExits'[i].positionId = d /\ pendingExits'[i].reason = "stop-loss")

\* C17: when the SL placement for a newly opened position returns -2021, no
\* slOrderId and no stop-loss pending exit is recorded for the position and
\* one market close of the position with reason stop-loss is started in the
\* same step, nothing being surfaced; with any other error no market close is
\* started and the error is surfaced (start() rejects, or the rejection of
\* the un-awaited _placeExitOrders call is unhandled).
C17_SlImmediateTrigger ==
  [][/\ \A t \in BagToSet(tasks) :
          (t.pc \in {"exits.placeSl", "start.placeSl"}) =>
             /\ Resume(t, "-2021") =>
                   /\ NoSlRecorded(t.pos)
                   /\ StartedTasks = {[t EXCEPT !.pc = "close.market", !.reason = "stop-loss"]}
                   /\ UNCHANGED <<phase, unhandled>>
             /\ Resume(t, "error") =>
                   /\ NoSlRecorded(t.pos)
                   /\ StartedTasks = {}
                   /\ IF t.outer = "start" THEN phase' = "failed" ELSE unhandled'
     /\ \A d \in Dirs :
          StartSlRejected(d) =>
             /\ NoSlRecorded(d)
             /\ StartedTasks = {[NewTask EXCEPT !.pc = "close.market", !.pos = d,
                                                !.reason = "stop-loss", !.outer = "start"]}
             /\ ~unhandled' /\ phase' = "starting"
     /\ \A t \in BagToSet(tasks) :
          (/\ t.pc = "close.market" /\ t.reason = "stop-loss" /\ ~t.unsafe
           /\ Resume(t, "ok") /\ ~positions[t.pos].isClosing) =>
              /\ positions'[t.pos].isClosing
              /\ \E u \in StartedTasks : /\ u.pos = t.pos /\ u.reason = "stop-loss"
                                         /\ u.pc \in FinalizePcs]_vars

\* C17 witness: a position whose SL placement was rejected with -2021 has been
\* closed at market and recorded with reason stop-loss, its SL never placed.
C17_Witness ==
  \E d \in Dirs :
     /\ \E i \in 1..Len(tradeHistory) :
           tradeHistory[i].direction = d /\ tradeHistory[i].reason = "stop-loss"
     /\ positions[d].slOrderId = NullId
     /\ OrderId(d, "tp") \in SeqRange(openOrders)
     /\ OrderId(d, "sl") \notin SeqRange(openOrders)
     /\ lastPrice = BasePrice

\* the realised P&L handed to the onDestroy callback: Trader.destroy passes
\* this.realizedPnl, VolatilityTrader.destroy passes the symbol only
onDestroyPnl(strat, realizedPnl) == IF strat = "GRID" THEN realizedPnl ELSE Undefined

\* the Trader has terminated: deactivated, nothing of it in flight any more
Terminated == phase = "started" /\ ~active /\ tasks = EmptyBag

\* C21: when a launched Trader of either strategy has terminated, its
\* onDestroy callback has run once, and Controller._destroy with what the
\* callback was given removes the symbol from traders, leaves the stream
\* subscription at the remaining symbols and applies the loss-streak logic to
\* the Trader's realised P&L (a loss counts, anything else resets the streak).
C21_TerminationHandled ==
  Terminated =>
     /\ onDestroyCalls = 1
     /\ \A pnl \in TerminalPnl :
          LET d == _destroy("AAA", onDestroyPnl(strategy, pnl), {"AAA", "BBB"}, 1, 0,
                            {"AAA", "BBB"})
          IN /\ d.traders = {"BBB"}
             /\ d.ss = {"BBB"}
             /\ d.cl = (IF pnl.v < 0 THEN 2 ELSE 0)

\* C22: the step in which a Grid Trader's start() completes leaves exactly two
\* pending entries and no position: a LONG entry placed as a BUY limit order
\* at basePrice x (1 - s/100) with level index -1 and a SHORT entry placed as
\* a SELL limit order at basePrice x (1 + s/100) with level index +1, both
\* with reduceOnly = false, both resting on the adapter.
C22_GridInitialEntries ==
  [][(Start /\ strategy = "GRID") =>
        /\ Len(pendingEntries') = 2
        /\ \A d \in Dirs : ~positions'[d].open
        /\ posOrder' = <<>>
        /\ openOrders' = pendingEntries'
        /\ LET long == EntryOf(pendingEntries'[1][1])
               short == EntryOf(pendingEntries'[2][1])
           IN /\ long.orderId = pendingEntries'[1] /\ short.orderId = pendingEntries'[2]
              /\ long.direction = "LONG" /\ long.side = "BUY" /\ long.levelIndex = 0 - 1
              /\ long.price * 100 = basePrice' * (100 - GridSpacingPercent)
              /\ short.direction = "SHORT" /\ short.side = "SELL" /\ short.levelIndex = 1
              /\ short.price * 100 = basePrice' * (100 + GridSpacingPercent)
              /\ ~long.reduceOnly /\ ~short.reduceOnly
              /\ IsLimit(long.orderId) /\ IsBuy(long.orderId)
              /\ IsLimit(short.orderId) /\ ~IsBuy(short.orderId)
              /\ OrderPrice(long.orderId) = long.price
              /\ OrderPrice(short.orderId) = short.price]_vars

\* C22 witness: a Grid Trader right after start(): started, two entries resting,
\* nothing filled or cancelled yet.
C22_Witness ==
  /\ strategy = "GRID" /\ phase = "started" /\ active
  /\ Len(pendingEntries) = 2 /\ openOrders = pendingEntries
  /\ posOrder = <<>> /\ tradeHistory = <<>> /\ tasks = EmptyBag

\* the exit orders of the Trader: TP, SL and the replacements after a first TP
ExitKinds == {"tp", "sl", "tpBase", "sl2"}

\* C23: a fill of an exit order that the Trader has submitted, delivered to
\* its registered handler while the position is open and not closing, is not
\* discarded: the handling step begins the finalization of the position
\* (also when the ids and the pending exits are not installed yet because the
\* placement of the sibling exit is still awaited).
C23_ExitFillNotDiscarded ==
  [][\A id \in SeqRange(openOrders) :
        (/\ ExchangeFill(id)
         /\ id[2] \in ExitKinds
         /\ active /\ handlersOn
         /\ positions[id[1]].open /\ ~positions[id[1]].isClosing) =>
            /\ positions'[id[1]].isClosing
            /\ \E u \in StartedTasks : u.pos = id[1] /\ u.pc \in FinalizePcs]_vars

\* the calls started by a handler of the Trader that are suspended on an
\* awaited api call (not those of start() or of an outside destroy call)
HandlerCallsInFlight == {t \in BagToSet(tasks) : t.ext = 0 /\ t.outer # "start"}

\* an event is delivered to a registered handler of the active Trader
HandlerBegins ==
  /\ active /\ handlersOn
  /\ \/ \E price \in PriceLevels(strategy) : MarkPrice(price) \/ PriceTick(price)
     \/ \E id \in SeqRange(openOrders) : ExchangeFill(id) \/ ExchangeCancel(id)

\* C24: the handlers of a Trader are serialised: no handler begins while a
\* call started by an earlier handler of the same Trader is suspended on an
\* awaited REST call.
C24_HandlersSerialised ==
  [][HandlerBegins => HandlerCallsInFlight = {}]_vars

\* the trades recorded by the step
NewTrades == SubSeq(tradeHistory', Len(tradeHistory) + 1, Len(tradeHistory'))
DestroyingReasons == {"take-profit", "stop-loss"}

\* C25 (Grid): the step that completes the finalization of a position removes
\* the position and produces exactly one tradeHistory entry and one
\* recordTrade call for it; no position is ever recorded twice.  When the
\* reason is take-profit or stop-loss the Trader is destroyed in that step
\* with that reason (inactive, handlers deregistered) and the destroy begins
\* with the cancellation of the still-pending entry, which takes the entry
\* off the exchange; a finalization with any other reason leaves the Trader
\* as active as it was.
C25_GridFinalizeDestroys ==
  [][strategy = "GRID" =>
       /\ (tradeHistory' # tradeHistory) =>
             /\ Len(NewTrades) = 1
             /\ tradeHistory' = tradeHistory \o NewTrades
             /\ recordTradeCalls' = recordTradeCalls + 1
             /\ LET e == NewTrades[1]
                IN /\ positions[e.direction].open
                   /\ ~positions'[e.direction].open
                   /\ e.direction \notin SeqRange(posOrder')
                   /\ \A i \in 1..Len(tradeHistory) : tradeHistory[i].direction # e.direction
                   /\ IF e.reason \in DestroyingReasons
                      THEN /\ ~active' /\ ~handlersOn' /\ offCalls' = 1
                           /\ active =>
                                /\ destroyReason' = e.reason
                                /\ \E u \in StartedTasks :
                                      IF pendingEntries # <<>>
                                      THEN u.pc = "destroy.cancelEntry" /\ u.cur = pendingEntries[1]
                                      ELSE u.pc \in {"destroy.cancelExit", "destroy.cancelAll"}
                      ELSE active' = active /\ offCalls' = offCalls
                                            /\ destroyReason' = destroyReason
       /\ (tradeHistory' = tradeHistory) => recordTradeCalls' = recordTradeCalls
       /\ \A t \in BagToSet(tasks) :
             (t.pc = "destroy.cancelEntry" /\ Resume(t, "ok")) =>
                t.cur \notin SeqRange(openOrders')]_vars

\* C25 witness: a Grid Trader whose LONG position was closed with reason
\* take-profit: one trade recorded, the position gone, the Trader destroyed
\* and the SHORT entry cancelled.
C25_Witness ==
  /\ strategy = "GRID"
  /\ tradeHistory = <<[direction |-> "LONG", reason |-> "take-profit"]>>
  /\ recordTradeCalls = 1
  /\ ~positions["LONG"].open /\ ~positions["SHORT"].open
  /\ ~active /\ destroyReason = "take-profit" /\ removeTraderCalls = 1
  /\ OrderId("SHORT", "entry") \notin SeqRange(openOrders)
  /\ tasks = EmptyBag

(***************************************************************************)
(* Grid exit placement near the stop: one Grid Trader, mark prices at and  *)
(* next to the stop-loss prices, entry fills and the placements' returns.  *)
(***************************************************************************)
\* mark prices explored on the safe side of each stop-loss price, in steps of 1/100
NearSteps == 3
NearStopPrices ==
  {BasePrice} \cup {StopLossPrice("GRID", d) + Sign(d) * k : d \in Dirs, k \in 0..NearSteps}

GridExitsInit ==
  /\ TraderInit
  /\ strategy = "GRID"
  /\ mode \in {"test", "live"}
  /\ enableTradingWindow = FALSE
  /\ maxTraders = MaxTraders
  /\ now = 0
  /\ SupInit /\ LedgerInit /\ AccountInit /\ AdapterInit /\ SupHistInit

GridPriceTick == \E price \in NearStopPrices : PriceTick(price) /\ UNCHANGED otherThanTrader
GridMarkPrice == \E price \in NearStopPrices : MarkPrice(price) /\ UNCHANGED otherThanTrader

GridExitsNext ==
  TraderStart \/ GridPriceTick \/ GridMarkPrice \/ TraderExchangeFill \/ TraderResume

SpecGridExits == GridExitsInit /\ [][GridExitsNext]_vars

\* the pre-check as stated: the price has crossed the stop-loss price of a
\* position of direction d, or lies within 0.02 % (of the price) of it
SlUnsafeAt(d, price) ==
  LET sl == StopLossPrice("GRID", d)
  IN \/ (IF d = "LONG" THEN price <= sl ELSE price >= sl)
     \/ (price - sl) * 10000 <= 2 * price /\ (sl - price) * 10000 <= 2 * price

\* the exit orders of position d are recorded as pending exits and on the position
ExitsInstalled(d) ==
  /\ positions'[d].tpOrderId = OrderId(d, "tp")
  /\ positions'[d].slOrderId = OrderId(d, "sl")
  /\ \E i \in 1..Len(pendingExits') :
        pendingExits'[i] = [orderId |-> OrderId(d, "tp"), positionId |-> d,
                            reason |-> "take-profit"]
  /\ \E i \in 1..Len(pendingExits') :
        pendingExits'[i] = [orderId |-> OrderId(d, "sl"), positionId |-> d,
                            reason |-> "stop-loss"]

\* C26 (Grid): the exit placement that begins when an entry fills takes the
\* pre-check on lastPrice as it is then.  When the price has crossed the
\* position's stop-loss price or lies within 0.02 % of it, no stop order is
\* placed: after the TP placement the position is closed at market with
\* reason stop-loss.  Otherwise the reduce-only SL stop is placed after the
\* reduce-only TP limit and both are recorded in pendingExits.
C26_GridSlPreCheck ==
  [][/\ \A d \in Dirs :
          (~positions[d].open /\ positions'[d].open) =>
              [NewTask EXCEPT !.pc = "exits.placeTp", !.pos = d,
                              !.unsafe = SlUnsafeAt(d, lastPrice')] \in StartedTasks
     /\ \A t \in BagToSet(tasks) :
          /\ (t.pc = "exits.placeTp" /\ Resume(t, "ok")) =>
                /\ OrderId(t.pos, "tp") \in SeqRange(openOrders')
                /\ TpOrder(t.pos).reduceOnly /\ TpOrder(t.pos).type = "LIMIT"
                /\ OrderId(t.pos, "sl") \notin SeqRange(openOrders')
                /\ StartedTasks =
                     {IF t.unsafe
                      THEN [t EXCEPT !.pc = "close.market", !.reason = "stop-loss"]
                      ELSE [t EXCEPT !.pc = "exits.placeSl"]}
          /\ (t.pc = "exits.placeSl") => ~t.unsafe
          /\ (t.pc = "exits.placeSl" /\ Resume(t, "ok")) =>
                /\ OrderId(t.pos, "sl") \in SeqRange(openOrders')
                /\ SlOrder(t.pos).reduceOnly /\ SlOrder(t.pos).type = "STOP"
                /\ ExitsInstalled(t.pos)
          /\ (/\ t.pc = "close.market" /\ t.unsafe /\ Resume(t, "ok")
              /\ ~positions[t.pos].isClosing) =>
                /\ positions'[t.pos].slOrderId = NullId
                /\ \/ \E u \in StartedTasks : u.pos = t.pos /\ u.reason = "stop-loss"
                   \/ /\ ~positions'[t.pos].open
                      /\ tradeHistory' = Append(tradeHistory, [direction |-> t.pos,
                                                               reason |-> "stop-loss"])]_vars

\* C26 witness: a LONG position opened while the price was within 0.02 % of
\* its stop-loss price without having crossed it has been closed at market
\* with reason stop-loss: its TP was placed, its SL never was.
C26_Witness ==
  /\ strategy = "GRID" /\ mode = "live"
  /\ lastPrice = StopLossPrice("GRID", "LONG") + 1
  /\ tradeHistory = <<[direction |-> "LONG", reason |-> "stop-loss"]>>
  /\ positions["LONG"].slOrderId = NullId
  /\ pendingExits = <<>>

\* the step is a destroy call made from outside the Trader
ExternalDestroyStep == Len(destroyResult') > Len(destroyResult)
LastTrade(h) == h[Len(h)]

\* C27 (Volatility): the Trader is destroyed exactly when its last position
\* has been finalized.  A step that deactivates the Trader, other than a
\* destroy call from outside, is a step that finalizes a position and leaves
\* the positions map empty, and the destroy reason is the reason of that
\* close; a step that empties the positions map leaves the Trader destroyed
\* (with that reason, unless an outside destroy had deactivated it before).
C27_VolDestroyOnLastClose ==
  [][strategy = "VOLATILITY" =>
       /\ (active /\ ~active' /\ ~ExternalDestroyStep) =>
             /\ posOrder # <<>> /\ posOrder' = <<>>
             /\ \A d \in Dirs : ~positions'[d].open
             /\ Len(tradeHistory') = Len(tradeHistory) + 1
             /\ destroyReason' = LastTrade(tradeHistory').reason
             /\ ~handlersOn'
       /\ (posOrder # <<>> /\ posOrder' = <<>>) =>
             /\ ~active'
             /\ Len(tradeHistory') = Len(tradeHistory) + 1
             /\ active => destroyReason' = LastTrade(tradeHistory').reason
             /\ ~active => destroyReason' = "external"
       /\ (destroyReason # "") => destroyReason' = destroyReason]_vars

\* C27 witness: a Volatility Trader whose first leg was closed with
\* take-profit while the Trader stayed active, and which was destroyed by the
\* close of its second leg with that close's reason.
C27_Witness ==
  /\ strategy = "VOLATILITY"
  /\ Len(tradeHistory) = 2
  /\ tradeHistory[1].reason = "take-profit"
  /\ tradeHistory[2].reason = "base-close"
  /\ destroyReason = "base-close"
  /\ ~active /\ posOrder = <<>> /\ removeTraderCalls = 1
  /\ destroyResult = <<>>

\* a finalization of leg d with the given reason is in flight or recorded
ClosingWith(d, reason) ==
  \/ \E t \in BagToSet(tasks) : t.pos = d /\ t.reason = reason /\ t.pc \in FinalizePcs
  \/ \E i \in 1..Len(tradeHistory) :
        tradeHistory[i].direction = d /\ tradeHistory[i].reason = reason

\* C28 (Volatility): tpHitSide is null as long as no take-profit close of the
\* Trader has begun; the step that sets it begins the take-profit close of
\* the leg it names; once set it never changes; and _replaceExitsAfterTp runs
\* at most once, for the other leg, after tpHitSide was set.
C28_TpHitSideSingleShot ==
  [][strategy = "VOLATILITY" =>
       /\ (tpHitSide # "null") => tpHitSide' = tpHitSide
       /\ (tpHitSide = "null") => \A d \in Dirs : ~ClosingWith(d, "take-profit")
       /\ (tpHitSide = "null" /\ tpHitSide' # "null") =>
             /\ ~positions[tpHitSide'].isClosing /\ positions'[tpHitSide'].isClosing
             /\ \/ \E u \in StartedTasks : /\ u.pos = tpHitSide' /\ u.reason = "take-profit"
                                            /\ u.pc \in FinalizePcs
                \/ /\ Len(tradeHistory') = Len(tradeHistory) + 1
                   /\ LastTrade(tradeHistory') = [direction |-> tpHitSide',
                                                  reason |-> "take-profit"]
       /\ replaceCalls' <= 1
       /\ (replaceCalls' # replaceCalls) =>
             /\ tpHitSide # "null" /\ replaceCalls = 0
             /\ LastTrade(tradeHistory') = [direction |-> tpHitSide, reason |-> "take-profit"]
             /\ Len(tradeHistory') = Len(tradeHistory) + 1]_vars

\* C28 witness: both legs of a Volatility Trader were closed with reason
\* take-profit, the SHORT leg first in the books; tpHitSide still names the
\* LONG leg, whose take-profit fill came first.
C28_Witness ==
  /\ strategy = "VOLATILITY"
  /\ tpHitSide = "LONG"
  /\ Len(tradeHistory) = 2
  /\ tradeHistory[1] = [direction |-> "SHORT", reason |-> "take-profit"]
  /\ tradeHistory[2] = [direction |-> "LONG", reason |-> "take-profit"]

\* C29: in every state of an active Trader each pending exit references a
\* position that is in the positions map and is not closing; in particular no
\* pending exit refers to a position that has been finalized.
C29_PendingExitsReferToOpenPositions ==
  active =>
     \A i \in 1..Len(pendingExits) :
        /\ positions[pendingExits[i].positionId].open
        /\ ~positions[pendingExits[i].positionId].isClosing

\* the trigger rule as stated
FillCondition(o, price) ==
  CASE o.type = "LIMIT" /\ o.side = "BUY" -> price <= o.price
    [] o.type = "LIMIT" /\ o.side = "SELL" -> price >= o.price
    [] o.type # "LIMIT" /\ o.side = "BUY" -> price >= o.stopPrice
    [] o.type # "LIMIT" /\ o.side = "SELL" -> price <= o.stopPrice

\* C30: on a simulated tick of a symbol every resting order of the symbol
\* fills if and only if its condition holds at the tick price (LIMIT BUY:
\* price <= limit, LIMIT SELL: price >= limit, stop BUY: price >= stop, stop
\* SELL: price <= stop) and no order of another symbol fills; a filled order
\* is removed from testOrders, one orderFilled event is emitted for it with
\* the order's limit price when it has one and its stop price otherwise, and
\* no order has more than one orderFilled event over its lifetime; an order
\* that does not fill stays in testOrders.
C30_SimulatorTriggerRule ==
  [][/\ \A symbol \in Symbols, markPrice \in SimPrices :
          SimulateFills(symbol, markPrice) =>
             /\ \A i \in 1..Len(testOrders) :
                   LET o == testOrders[i]
                       events == {j \in 1..Len(simFills') : simFills'[j].order = o}
                   IN IF o.symbol = symbol /\ FillCondition(o, markPrice)
                      THEN /\ Cardinality(events) = 1
                           /\ o \notin SeqRange(testOrders')
                           /\ simEmitted'[o.orderId] = 1
                           /\ \A j \in events :
                                 simFills'[j].price =
                                    (IF o.price # NoPrice THEN o.price ELSE o.stopPrice)
                      ELSE /\ events = {}
                           /\ o \in SeqRange(testOrders')
                           /\ simEmitted'[o.orderId] = 0
             /\ \A j \in 1..Len(simFills') : simFills'[j].order \in SeqRange(testOrders)
     /\ \A id \in 1..MaxTestOrders : simEmitted'[id] <= 1
     /\ (simEmitted' # simEmitted) =>
           \E symbol \in Symbols, markPrice \in SimPrices : SimulateFills(symbol, markPrice)]_vars

\* C30 witness: a tick at 99 filled a BUY stop order (stop 99) that carries
\* the limit price 100, at 100, while a SELL limit order at 100 of the same
\* symbol stayed resting.
C30_Witness ==
  /\ simMarkPrice = 99
  /\ Len(simFills) = 1
  /\ simFills[1].order.type # "LIMIT" /\ simFills[1].order.side = "BUY"
  /\ simFills[1].order.stopPrice = 99 /\ simFills[1].order.price = 100
  /\ simFills[1].price = 100
  /\ simEmitted[simFills[1].order.orderId] = 1
  /\ \E i \in 1..Len(testOrders) :
        /\ testOrders[i].symbol = simFills[1].order.symbol
        /\ testOrders[i].type = "LIMIT" /\ testOrders[i].side = "SELL"
        /\ testOrders[i].price = 100

(***************************************************************************)
(* Simulated-account specification: limit orders of one symbol rest and    *)
(* fill on ticks, and market orders fill at once                           *)
(***************************************************************************)
\* the quantities of the orders
WalletQuantities == {1, 2}
\* the prices of the orders and of the market fills
WalletPrices == {98, 100}

WalletPlaceLimit ==
  \E side \in Sides, price \in WalletPrices, quantity \in WalletQuantities :
     placeLimitOrder("AAA", side, price, quantity)
       /\ UNCHANGED <<otherThanAdapter, streamVars, idVars>>

WalletTick ==
  \E markPrice \in WalletPrices :
     SimulateFills("AAA", markPrice) /\ UNCHANGED <<otherThanAdapter, streamVars, idVars>>

WalletMarketOrder ==
  \E side \in Sides, quantity \in WalletQuantities, price \in WalletPrices :
     placeMarketOrder("AAA", side, quantity, price)
       /\ UNCHANGED <<otherThanAdapter, streamVars, idVars, simVars>>

WalletNext == WalletPlaceLimit \/ WalletTick \/ WalletMarketOrder

SpecWallet == SimSpecInit /\ [][WalletNext]_vars

\* the notional-weighted average entry price after adding to a position
WeightedEntry(before, deltaQty, price) ==
  FracOver(FracAdd(FracMul(before.entryPrice, FracOf(Abs(before.qty))),
                   FracOf(price * Abs(deltaQty))),
           Abs(before.qty) + Abs(deltaQty))

\* C31: for every fill applied to the simulated account: a fill of the sign
\* of the current position, or from flat, sets the entry price to the
\* notional-weighted average and realises no P&L; a fill of the opposite
\* sign realises (fillPrice - entryPrice) x closedQuantity x direction and,
\* when quantity of the old direction remains, leaves its entry price
\* unchanged; the balance changes by the P&L less feeRate x |qty x fillPrice|.
C31_PositionAccounting ==
  \A i \in 1..Len(realizeLog) :
     LET r == realizeLog[i]
         opens == r.before.qty = 0 \/ MathSign(r.deltaQty) = MathSign(r.before.qty)
         closedQty == IF Abs(r.before.qty) < Abs(r.deltaQty) THEN Abs(r.before.qty)
                      ELSE Abs(r.deltaQty)
         expected == IF opens THEN FracOf(0)
                     ELSE FracMul(FracSub(FracOf(r.price), r.before.entryPrice),
                                  FracOf(closedQty * MathSign(r.before.qty)))
     IN /\ r.after.qty = r.before.qty + r.deltaQty
        /\ r.pnl = expected
        /\ opens => r.after.entryPrice = WeightedEntry(r.before, r.deltaQty, r.price)
        /\ (~opens /\ MathSign(r.after.qty) = MathSign(r.before.qty)) =>
              r.after.entryPrice = r.before.entryPrice
        /\ r.fee = FracMul(feeRate, FracOf(Abs(r.deltaQty * r.price)))
        /\ r.balanceAfter = FracSub(FracAdd(r.balanceBefore, expected), r.fee)

\* an error or close event of the socket this.ws refers to
CurrentSocketFails == \E id \in 1..Len(sockets) : ws = id /\ (WsClose(id) \/ WsError(id))

\* C32: at most one reconnect timeout is pending at any time; an error or
\* close event of the current socket while the symbol set is non-empty
\* leaves exactly one pending, however many such events came before and in
\* whichever order; a timeout is set by such an event only, never while the
\* symbol set is empty and at most once for one socket; a timeout that fires
\* makes one connection attempt.
C32_ReconnectDebounce ==
  [][/\ pendingTimers' <= 1
     /\ (CurrentSocketFails /\ symbolStreams # {}) => pendingTimers' = 1 /\ reconnectTimer'
     /\ pendingTimers' > pendingTimers => CurrentSocketFails /\ symbolStreams # {}
     /\ \A i, j \in 1..Len(scheduledFor') : scheduledFor'[i] = scheduledFor'[j] => i = j
     /\ ReconnectFires =>
          /\ pendingTimers' = 0
          /\ IF symbolStreams = {} THEN sockets' = sockets
             ELSE Len(sockets') = Len(sockets) + 1 /\ ws' = Len(sockets')]_vars

\* C32 witness: the current socket has reported its close and then an error
\* while symbols are subscribed, and the one timeout set for it is pending.
C32_Witness ==
  /\ symbolStreams # {}
  /\ ws # 0 /\ sockets[ws] = "closed"
  /\ lastWsEvent = [kind |-> "error", socket |-> ws, acted |-> TRUE]
  /\ pendingTimers = 1 /\ reconnectTimer
  /\ scheduledFor # <<>> /\ scheduledFor[Len(scheduledFor)] = ws

\* the market sockets that are connecting or connected
AliveSockets == {id \in 1..Len(sockets) : Alive(sockets[id])}

\* C40: at most one market socket created by the adapter is connecting or
\* open at any time, and it is the one this.ws refers to.
C40_SingleMarketSocket ==
  /\ Cardinality(AliveSockets) <= 1
  /\ AliveSockets \subseteq {ws}

\* the tradeHistory entries of the position of direction d
TradesOf(d) == {i \in 1..Len(tradeHistory) : tradeHistory[i].direction = d}

\* C33: each position is closed at most once, whichever of an exit fill, a
\* force close on a price event, a market close and destroy's close-all
\* reach it and however they interleave: tradeHistory has at most one entry
\* for a position, a position with an entry is no longer in the map, and
\* recordTrade was called once for each entry (realizedPnl is incremented
\* in the same synchronous block as the entry is appended).
C33_ClosedAtMostOnce ==
  /\ \A d \in Dirs : Cardinality(TradesOf(d)) <= 1
  /\ \A d \in Dirs : TradesOf(d) # {} => ~positions[d].open
  /\ recordTradeCalls = Len(tradeHistory)

\* C33 witness: the close of a position by its exit is recorded while the
\* market order destroy's close-all placed for the same position is still
\* in flight.
C33_Witness ==
  \E t \in BagToSet(tasks), d \in Dirs :
     /\ t.pc = "close.market" /\ t.pos = d /\ t.reason = "destroy"
     /\ TradesOf(d) # {}
     /\ tradeHistory[CHOOSE i \in TradesOf(d) : TRUE].reason \in {"take-profit", "stop-loss"}

\* the position of direction d is in the map and has no resting stop-loss
\* order on the exchange
Unprotected(d) ==
  /\ positions[d].open
  /\ (positions[d].slOrderId = NullId \/ positions[d].slOrderId \notin SeqRange(openOrders))

\* C34: when a Grid Trader has terminated after a take-profit or stop-loss
\* close, no position of it is left in the map without a resting stop-loss
\* order: a second position is closed too, or is still protected.
C34_GridLeavesNoPosition ==
  (strategy = "GRID" /\ Terminated /\ destroyReason \in {"take-profit", "stop-loss"}) =>
     \A d \in Dirs : ~Unprotected(d)

(***************************************************************************)
(* Grid Trader on the live exchange with the calls it awaits returning:    *)
(* exchange events and an outside destroy call may or may not come         *)
(***************************************************************************)
GridLiveInit == TraderLiveInit /\ strategy = "GRID"

GridLiveNext ==
  \/ TraderStart
  \/ TraderStartFail
  \/ LiveMarkPrice
  \/ TraderExchangeFill
  \/ TraderExchangeCancel
  \/ TraderResume
  \/ LiveExternalDestroy

SpecGridLiveFair == GridLiveInit /\ [][GridLiveNext]_vars /\ WF_vars(TraderResume)

\* an active Trader with no pending entry, no position and nothing in flight
DeadTrader ==
  /\ phase = "started" /\ active
  /\ pendingEntries = <<>>
  /\ \A d \in Dirs : ~positions[d].open
  /\ tasks = EmptyBag

\* C35: an active Grid Trader that has no pending entries and no open
\* positions is eventually destroyed: it does not stay active for ever (the
\* release of its Supervisor slot, by onDestroy, comes after that).
C35_DeadTraderDestroyed == DeadTrader ~> ~active

\* the cancel call of _replaceExitsAfterTp for the surviving position's old
\* stop-loss order is awaited
CancellingOldSl(t) == t.pc = "replace.cancelSl" /\ t.cur \in SeqRange(openOrders)

\* C36: an orderCancelled event for the old stop-loss order that
\* _replaceExitsAfterTp is cancelling, delivered while the cancel call is
\* still awaited, starts no market close with reason sl-rejected.
C36_OwnCancelStartsNoClose ==
  [][\A t \in BagToSet(tasks) :
       (CancellingOldSl(t) /\ ExchangeCancel(t.cur)) =>
          \A u \in StartedTasks : ~(u.pc = "close.market" /\ u.reason = "sl-rejected")]_vars

\* the close of position d has begun and is neither recorded nor in progress
StuckClosing(d) ==
  /\ positions[d].open /\ positions[d].isClosing
  /\ ~\E t \in TaskSet : t.pos = d /\ t.pc \in FinalizePcs

\* C37: a Grid position never remains in the positions map with isClosing set
\* and no _finalizeClose call working on it, also when cancelling its TP or
\* SL order raised an error: the close goes on to be recorded.
C37_GridCloseNotStuck ==
  strategy = "GRID" => \A d \in Dirs : ~StuckClosing(d)

\* the Traders constructed for symbol s whose start() is still awaited
Starting(s) ==
  {t \in 1..MaxTicks : ticks[t].pc = "start" /\ ticks[t].cands[ticks[t].idx] = s}

\* C38: for every symbol at most one Trader has been constructed and not yet
\* terminated (being started by a scan tick, or running), also when scan
\* ticks overlap.
C38_OneTraderPerSymbol ==
  \A s \in Symbols : Cardinality(Starting(s)) + running[s] <= 1

\* the take-profit orders resting on the exchange that were placed for a
\* position and never recorded (neither as the position's tpOrderId nor as a
\* pending exit), the placement of the position's exits being over
UntrackedExits ==
  {id \in SeqRange(openOrders) :
      /\ id[2] = "tp"
      /\ positions[id[1]].tpOrderId = NullId
      /\ id \notin ExitIds(pendingExits)
      /\ ~ExitsBeingPlaced(id[1])}

\* C39: while the Trader is active no reduce-only exit order rests on the
\* exchange that the Trader has not recorded, also after a TP order was
\* placed and the SL step ended in an immediate market close.
C39_NoUntrackedExit ==
  (phase = "started" /\ active) => UntrackedExits = {}
====
